---- MODULE Spec2Model ----
(***************************************************************************)
(* Model of main.py: the hotel matching loop of main() with the scoring    *)
(* helpers it calls (calculate_similarity, calculate_distance,             *)
(* gpt_fuzzy_match).                                                       *)
(*                                                                         *)
(* Spec is the loop of main(), where calculate_similarity answers with any *)
(* ratio.  SpecSim is calculate_similarity itself, character by character, *)
(* with the rules file and the learning step it escalates to; SpecSym      *)
(* calls it on a pair and then on the same pair the other way round.       *)
(* SpecRun is the bookkeeping of main() over runs: the batch buffer, the   *)
(* exported files and the processed log.  SpecTwo is two processes in the  *)
(* learning step on one rules file.  SpecPool is the proxy scores in       *)
(* Redis with the retry loop of scrape_agoda_page_pyppeteer.               *)
(*                                                                         *)
(* Scores are Python floats in the source.  Every score the loop computes  *)
(* from integer similarities is a multiple of 1/40, so the model keeps     *)
(* scores as integers in units of 1/40 (Units): the source's 40 is         *)
(* 40 * Units here.  The band tests of the source give the same answer on  *)
(* floats and on these exact values for all similarities in 0..100.        *)
(***************************************************************************)
EXTENDS Integers, Sequences, FiniteSets, TLC

VARIABLES
    pc,                  \* position of main(): loop, search, scrape, compare, scored, blended, done, crashed
    idx,                 \* number of hotels the for loop has taken
    processed_codes,     \* codes loaded from the processed log at start
    hotel,               \* the local record of the current iteration
    hotel_links,         \* result of search_agoda_hotel
    agoda_data,          \* result of scrape_agoda_page_pyppeteer
    name_similarity,
    address_similarity,
    distance_m,
    postal_match,
    postal_needs_review,
    score,               \* in units of 1/40
    gpt_reply,           \* what the arbitration service answered in this iteration
    gpt_score,
    gpt_calls,
    scrape_count,
    current_proxy,
    batch_len,           \* len(batch_results)
    result,              \* the row this iteration appended to batch_results
    processed_log,       \* codes appended to the processed log in this run
    calls,               \* calls made so far in the current iteration, in order
    results,             \* the list main() returns
    unmatched_hotels     \* the rows of the final unmatched-hotels log

mainvars == <<pc, idx, processed_codes, hotel, hotel_links, agoda_data,
              name_similarity, address_similarity, distance_m, postal_match,
              postal_needs_review, score, gpt_reply, gpt_score, gpt_calls,
              scrape_count, current_proxy, batch_len, result,
              processed_log, calls, results, unmatched_hotels>>

\* ------------------------------------------------------------------ bounds

\* Number of hotels in the catalogue of one run.
MaxHotels == 1

\* ------------------------------------------------------------------ values

Units == 8 * 5

\* A field value: a Python str (val: its characters or comma separated
\* parts), None, or the float NaN pandas gives for an empty cell.
StrV(s) == [tag |-> "str", val |-> s]
None == [tag |-> "none", val |-> <<>>]
NaN == [tag |-> "nan", val |-> <<>>]

\* A coordinate or a distance: a float, None, NaN or +infinity.
Float(x) == [tag |-> "float", val |-> x]
NoneF == [tag |-> "none", val |-> 0]
NaNF == [tag |-> "nan", val |-> 0]
Inf == [tag |-> "inf", val |-> 0]

\* Python truthiness of a field value: None, "" and 0.0 are false, NaN is true.
Truthy(v) ==
    /\ v.tag # "none"
    /\ ~(v.tag = "str" /\ v.val = <<>>)
    /\ ~(v.tag = "float" /\ v.val = 0)

\* ------------------------------------------------------------ text helpers

IsSpace(c) == c \in {" ", "\n"}

RECURSIVE LStrip(_)
LStrip(s) == IF s # <<>> /\ IsSpace(Head(s)) THEN LStrip(Tail(s)) ELSE s

RECURSIVE RStrip(_)
RStrip(s) ==
    IF s # <<>> /\ IsSpace(s[Len(s)]) THEN RStrip(SubSeq(s, 1, Len(s) - 1)) ELSE s

\* str.strip()
Strip(s) == RStrip(LStrip(s))

\* str.split(sep): the pieces between the occurrences of sep.
RECURSIVE Split(_, _)
Split(s, sep) ==
    IF \E i \in 1..Len(s) : s[i] = sep
    THEN LET i == CHOOSE k \in 1..Len(s) :
                      s[k] = sep /\ \A j \in 1..(k - 1) : s[j] # sep
         IN  <<SubSeq(s, 1, i - 1)>> \o Split(SubSeq(s, i + 1, Len(s)), sep)
    ELSE <<s>>

\* str.startswith(prefix)
StartsWith(s, prefix) ==
    Len(s) >= Len(prefix) /\ SubSeq(s, 1, Len(prefix)) = prefix

\* str(v) of a field value.
Str(v) ==
    CASE v.tag = "str" -> v.val
      [] v.tag = "nan" -> <<"n", "a", "n">>
      [] v.tag = "none" -> <<"N", "o", "n", "e">>

DigitChars == <<"0", "1", "2", "3", "4", "5", "6", "7", "8", "9">>

IsDigit(c) == \E i \in 1..Len(DigitChars) : DigitChars[i] = c

DigitVal(c) == (CHOOSE i \in 1..Len(DigitChars) : DigitChars[i] = c) - 1

RECURSIVE DecValue(_)
DecValue(s) ==
    IF s = <<>> THEN 0
    ELSE 10 * DecValue(SubSeq(s, 1, Len(s) - 1)) + DigitVal(s[Len(s)])

\* int(s) of a str: surrounding whitespace is dropped, one sign is allowed,
\* then one digit or more; anything else raises ValueError (ok = FALSE).
PyInt(s) ==
    LET t == Strip(s)
        signed == t # <<>> /\ Head(t) \in {"+", "-"}
        body == IF signed THEN Tail(t) ELSE t
        ok == body # <<>> /\ \A i \in 1..Len(body) : IsDigit(body[i])
    IN  [ok |-> ok,
         val |-> IF ~ok THEN 0
                 ELSE IF signed /\ Head(t) = "-" THEN 0 - DecValue(body)
                 ELSE DecValue(body)]

\* ------------------------------------------------------ program constants

LowConfidence == 50
NearLimit == 1000
FarLimit == 5000
NearBonus == 30
FarPenalty == 20
BandLow == 40
BandHigh == 80
GptDefault == 80
UnmatchedBelow == 80
batch_size == 100
ProxySwitchEvery == 10

\* ------------------------------------------------------- scoring helpers

\* calculate_similarity(str1, str2): `ratio` is what fuzz.token_sort_ratio
\* gives for the two normalised strings and `is_same` what
\* update_similarity_rules_with_gpt returns when it is asked.  str.lower()
\* on a value that is no str (NaN) raises AttributeError.
calculate_similarity(str1, str2, ratio, is_same) ==
    IF ~Truthy(str1) \/ ~Truthy(str2)
    THEN [raised |-> FALSE, value |-> 0, learn |-> FALSE]
    ELSE IF str1.tag # "str" \/ str2.tag # "str"
    THEN [raised |-> TRUE, value |-> 0, learn |-> FALSE]
    ELSE IF ratio < LowConfidence
    THEN [raised |-> FALSE, value |-> IF is_same THEN 100 ELSE ratio, learn |-> TRUE]
    ELSE [raised |-> FALSE, value |-> ratio, learn |-> FALSE]

\* x.split(',')[0] as main() writes it for the two addresses: the local one
\* is split whatever it is (AttributeError on a value that is no str), the
\* candidate's only when it is truthy, None being passed on otherwise.
FirstPart(v) == StrV(Split(v.val, ",")[1])

Abs(x) == IF x < 0 THEN 0 - x ELSE x

\* geodesic(...).kilometers * 1000 for two points given in metres on a local
\* grid: zero exactly for equal points, symmetric, additive along a line.
\* Given a NaN the library either raises ValueError or returns NaN,
\* depending on its version.
geodesic(lat1, lon1, lat2, lon2) ==
    IF "nan" \in {lat1.tag, lon1.tag, lat2.tag, lon2.tag}
    THEN {[raised |-> TRUE, d |-> NaNF], [raised |-> FALSE, d |-> NaNF]}
    ELSE {[raised |-> FALSE,
           d |-> Float(Abs(lat1.val - lat2.val) + Abs(lon1.val - lon2.val))]}

\* calculate_distance: the set of its outcomes.
calculate_distance(lat1, lon1, lat2, lon2) ==
    IF Truthy(lat1) /\ Truthy(lon1) /\ Truthy(lat2) /\ Truthy(lon2)
    THEN geodesic(lat1, lon1, lat2, lon2)
    ELSE {[raised |-> FALSE, d |-> Inf]}

\* Float comparisons d < k and d > k: false on NaN, +infinity is above all.
Lt(d, k) == d.tag = "float" /\ d.val < k
Gt(d, k) == d.tag = "inf" \/ (d.tag = "float" /\ d.val > k)

\* Line 714.
PostalMatch(h, a) ==
    IF Truthy(a.postal_code)
    THEN Strip(Str(h.postal_code)) = Strip(Str(a.postal_code))
    ELSE TRUE

\* Line 715.
PostalNeedsReview(a, match) ==
    IF Truthy(a.postal_code) THEN ~match ELSE FALSE

\* Line 717, in units of 1/40:
\* (0.3*n + 0.2*a + (0.3 if postal_match else 0)) / 0.8 = (3n + 2a + 3p) / 8.
BaseScore(n, a, match) ==
    (Units * (3 * n + 2 * a + (IF match THEN 3 ELSE 0))) \div 8

\* Lines 718-721 with the two limits counted into the outer bands.
DistanceAdjustInclusive(s, d) ==
    IF d.tag = "float" /\ d.val <= NearLimit THEN s + NearBonus * Units
    ELSE IF d.tag = "inf" \/ (d.tag = "float" /\ d.val >= FarLimit)
    THEN s - FarPenalty * Units
    ELSE s

\* Lines 718-721 with the near test written `distance_m and distance_m <
\* 1000`: a distance of exactly 0.0 is falsy and earns no bonus.
DistanceAdjustTruthy(s, d) ==
    IF d.tag = "float" /\ d.val # 0 /\ d.val < NearLimit THEN s + NearBonus * Units
    ELSE IF Gt(d, FarLimit) THEN s - FarPenalty * Units
    ELSE s

\* Lines 718-721.
DistanceAdjust(s, d) ==
    IF Lt(d, NearLimit) THEN s + NearBonus * Units
    ELSE IF Gt(d, FarLimit) THEN s - FarPenalty * Units
    ELSE s

\* Line 723 with the two ends of the band counted in.
InBandClosed(s) == BandLow * Units <= s /\ s <= BandHigh * Units

\* Line 723.
InBand(s) == BandLow * Units < s /\ s < BandHigh * Units

\* Line 727: 0.4 * score + 0.6 * gpt_score.
Blend(s, g) == (4 * s + 6 * Units * g) \div 10

\* ------------------------------------------------ arbitration adjudicator

SimilarityPrefix == <<"Similarity", ":">>

Min(S) == CHOOSE x \in S : \A y \in S : x <= y

\* gpt_fuzzy_match with the default kept for a missing line only: a value
\* that int() refuses counts as 0.
gpt_fuzzy_match_zero(local_data, candidate, reply) ==
    IF reply.raised THEN GptDefault
    ELSE LET lines == Split(Strip(reply.text), "\n")
             hits == {i \in 1..Len(lines) : StartsWith(lines[i], SimilarityPrefix)}
         IN  IF hits = {} THEN GptDefault
             ELSE PyInt(Split(lines[Min(hits)], ":")[2]).val

\* gpt_fuzzy_match: reply.raised says the service call raised, reply.text is
\* the message content otherwise.  The first line starting with
\* "Similarity:" decides; int() raising lands in the except clause.
gpt_fuzzy_match(local_data, candidate, reply) ==
    IF reply.raised THEN GptDefault
    ELSE LET lines == Split(Strip(reply.text), "\n")
             hits == {i \in 1..Len(lines) : StartsWith(lines[i], SimilarityPrefix)}
         IN  IF hits = {} THEN GptDefault
             ELSE LET similarity == PyInt(Split(lines[Min(hits)], ":")[2])
                  IN  IF similarity.ok THEN similarity.val ELSE GptDefault

\* ------------------------------------------------------------ input sets

\* Local records as load_hotel_data returns them: a cell left empty in the
\* spreadsheet is the float NaN.  Coordinates are metres on a local grid.
LocalHotels ==
    {h \in [code : {0},
            name_en : {StrV(<<"n">>), NaN},
            addr_en : {StrV(<<"a", ",", "s">>), NaN},
            postal_code : {StrV(<<"1">>), StrV(<<" ", "1", " ">>), NaN},
            latitude : {Float(7000), Float(0), NaNF},
            longitude : {Float(127), NaNF}] :
        h.longitude = NaNF => h.latitude = Float(7000)}

\* Candidate records as scrape_agoda_page_pyppeteer returns them (lines
\* 484-492): a meta tag that is not on the page leaves its field None.
Candidates ==
    {c \in [is_none : {FALSE},
            hotel_name : {StrV(<<"n">>), None},
            address : {StrV(<<"a", ",", " ", "r">>), None},
            postal_code : {StrV(<<"1">>), StrV(<<"2">>), None},
            latitude : {Float(7000), Float(6001), Float(6000), Float(2000),
                        Float(1999), Float(0), NoneF},
            longitude : {Float(127), NoneF}] :
        c.longitude = NoneF => c.latitude = Float(7000)}

\* Values of fuzz.token_sort_ratio for the two names and the two addresses.
NameRatios == {0, 40, 100}
AddrRatios == {0, 50, 70, 90, 100}

\* Replies of the chat completion call of gpt_fuzzy_match.
Said(text) == [raised |-> FALSE, text |-> text]
ServiceError == [raised |-> TRUE, text |-> <<>>]
Replies ==
    {ServiceError,
     Said(<<"Similarity", ":", " ", "9", "0", "\n", "Explanation", ":", " ", "x">>),
     Said(<<"x">>),
     Said(<<"Similarity", ":", " ", "9", "0", "%">>),
     Said(<<"Similarity", ":", " ", "x", "\n", "Similarity", ":", " ", "9", "0">>),
     Said(<<"x", "\n", " ", "Similarity", ":", " ", "9", "0">>),
     Said(<<"x", "\n", "Similarity", ":", " ", "0">>),
     Said(<<"Similarity", ":", " ", "1", "5", "0">>),
     Said(<<"Similarity", ":", " ", "-", "5">>)}

NoHotel ==
    [code |-> 0, name_en |-> NaN, addr_en |-> NaN, postal_code |-> NaN,
     latitude |-> NaNF, longitude |-> NaNF]

\* agoda_data when scraping returned None (and before the scrape); a
\* record that was returned is truthy whatever its fields are.
NoData ==
    [is_none |-> TRUE, hotel_name |-> None, address |-> None, postal_code |-> None,
     latitude |-> NoneF, longitude |-> NoneF]

NoReply == [raised |-> FALSE, text |-> <<>>]

\* ----------------------------------------------------------- result rows

\* The fields of a result row that scoring decides (the row also copies the
\* fields of the two records).
Row(code, n, a, d, match, review, s, found) ==
    [code |-> code, name_similarity |-> n, address_similarity |-> a,
     distance_m |-> d, postal_match |-> match, postal_needs_review |-> review,
     score |-> s, url_found |-> found]

\* The no-match row with the postal flags of a compared pair whose
\* candidate has no postal code.
NoMatchRowBenefit(code, found) == Row(code, 0, 0, Inf, TRUE, FALSE, 0, found)

\* Lines 646-670 and 680-704.
NoMatchRow(code, found) == Row(code, 0, 0, Inf, FALSE, TRUE, 0, found)

NoRow == Row(0, 0, 0, Inf, FALSE, FALSE, 0, FALSE)

\* Line 774: the rows of rs that go to the unmatched-hotels log.
Unmatched(rs) ==
    LET IsUnmatched(r) == r.score < UnmatchedBelow * Units
    IN  SelectSeq(rs, IsUnmatched)

\* len(batch_results) after one more append and the export test of line 764.
AfterExportTest(n) == IF n = batch_size THEN 0 ELSE n

\* --------------------------------------------- characters, re and str calls

\* From here on a str is the sequence of its characters.

Lowercase ==
    <<"a", "b", "c", "d", "e", "f", "g", "h", "i", "j", "k", "l", "m",
      "n", "o", "p", "q", "r", "s", "t", "u", "v", "w", "x", "y", "z">>

Uppercase ==
    <<"A", "B", "C", "D", "E", "F", "G", "H", "I", "J", "K", "L", "M",
      "N", "O", "P", "Q", "R", "S", "T", "U", "V", "W", "X", "Y", "Z">>

IsIn(c, chars) == \E i \in 1..Len(chars) : chars[i] = c

IndexOf(c, chars) == CHOOSE i \in 1..Len(chars) : chars[i] = c

\* [a-zA-Z0-9]
IsAlnum(c) == IsIn(c, Lowercase) \/ IsIn(c, Uppercase) \/ IsDigit(c)

\* \w of re, on ASCII text.
IsWordChar(c) == IsAlnum(c) \/ c = "_"

LowerChar(c) == IF IsIn(c, Uppercase) THEN Lowercase[IndexOf(c, Uppercase)] ELSE c

\* str.lower()
Lower(s) == [i \in 1..Len(s) |-> LowerChar(s[i])]

\* re.match(r'^[a-zA-Z0-9\s\-\']+$', word), preceded by the truth test of
\* word (lines 269, 301, 313, 323, 334).
ValidWord(word) ==
    /\ word # <<>>
    /\ \A i \in 1..Len(word) :
          IsAlnum(word[i]) \/ IsSpace(word[i]) \/ word[i] \in {"-", "'"}

\* re.match(r'^[a-zA-Z0-9\s\-\*\+]+$', pattern), preceded by the truth test
\* of pattern (line 277).
ValidPattern(pattern) ==
    /\ pattern # <<>>
    /\ \A i \in 1..Len(pattern) :
          IsAlnum(pattern[i]) \/ IsSpace(pattern[i]) \/ pattern[i] \in {"-", "*", "+"}

\* s holds word at position i, letter case ignored (re.IGNORECASE).
MatchAt(s, word, i) ==
    /\ i >= 1
    /\ i + Len(word) - 1 <= Len(s)
    /\ \A k \in 1..Len(word) : LowerChar(s[i + k - 1]) = LowerChar(word[k])

WordAt(s, i) == i >= 1 /\ i <= Len(s) /\ IsWordChar(s[i])

\* \b between s[i-1] and s[i].
Boundary(s, i) == WordAt(s, i - 1) # WordAt(s, i)

\* How many whitespace characters s holds from position i on (\s*).
RECURSIVE SpacesFrom(_, _)
SpacesFrom(s, i) ==
    IF i <= Len(s) /\ IsSpace(s[i]) THEN 1 + SpacesFrom(s, i + 1) ELSE 0

\* re.sub(rf'\b{re.escape(word)}\b\s*', '', s, flags=re.IGNORECASE) from
\* position i on when trailing is TRUE, the same without \s* otherwise.
RECURSIVE SubWordFrom(_, _, _, _)
SubWordFrom(s, word, trailing, i) ==
    IF i > Len(s) THEN <<>>
    ELSE IF MatchAt(s, word, i) /\ Boundary(s, i) /\ Boundary(s, i + Len(word))
    THEN SubWordFrom(s, word, trailing,
                     i + Len(word)
                       + (IF trailing THEN SpacesFrom(s, i + Len(word)) ELSE 0))
    ELSE <<s[i]>> \o SubWordFrom(s, word, trailing, i + 1)

SubWord(s, word, trailing) == SubWordFrom(s, word, trailing, 1)

\* re.sub(rf',\s*{re.escape(region)}', '', s, flags=re.IGNORECASE) from
\* position i on: \s* takes as many whitespace characters as leave a match.
RECURSIVE SubRegionFrom(_, _, _)
SubRegionFrom(s, region, i) ==
    IF i > Len(s) THEN <<>>
    ELSE LET ks == {k \in 0..SpacesFrom(s, i + 1) : MatchAt(s, region, i + 1 + k)}
         IN  IF s[i] = "," /\ ks # {}
             THEN LET k == CHOOSE x \in ks : \A y \in ks : y <= x
                  IN  SubRegionFrom(s, region, i + 1 + k + Len(region))
             ELSE <<s[i]>> \o SubRegionFrom(s, region, i + 1)

SubRegion(s, region) == SubRegionFrom(s, region, 1)

\* s.replace(old, new) from position i on: one pass from the left over the
\* occurrences of old that do not overlap.
RECURSIVE ReplaceFrom(_, _, _, _)
ReplaceFrom(s, old, new, i) ==
    IF i > Len(s) THEN <<>>
    ELSE IF i + Len(old) - 1 <= Len(s) /\ SubSeq(s, i, i + Len(old) - 1) = old
    THEN new \o ReplaceFrom(s, old, new, i + Len(old))
    ELSE <<s[i]>> \o ReplaceFrom(s, old, new, i + 1)

Replace(s, old, new) == ReplaceFrom(s, old, new, 1)

\* -------------------------------------------------- the similarity rules

\* default_rules of load_similarity_rules (lines 206-231).  A replace dict
\* is the sequence of its (old, new) items in insertion order, and the
\* remove_patterns key, which the defaults do not have, is the empty list
\* that lines 278-279 read a missing key as.
default_rules ==
    [name |->
        [remove_words |-> <<<<"h", "o", "t", "e", "l">>>>,
         remove_suffixes |->
             <<<<"b", "y", " ", "b", "e", "s", "t", " ", "w", "e", "s", "t", "e", "r", "n", " ", "s", "i", "g", "n", "a", "t", "u", "r", "e", " ", "c", "o", "l", "l", "e", "c", "t", "i", "o", "n">>,
               <<"b", "y", " ", "b", "e", "s", "t", " ", "w", "e", "s", "t", "e", "r", "n">>,
               <<"b", "e", "s", "t", " ", "w", "e", "s", "t", "e", "r", "n">>,
               <<"s", "i", "g", "n", "a", "t", "u", "r", "e", " ", "c", "o", "l", "l", "e", "c", "t", "i", "o", "n">>>>,
         remove_cities |->
             <<<<"j", "e", "j", "u">>,
               <<"s", "e", "o", "u", "l">>,
               <<"b", "u", "s", "a", "n">>,
               <<"d", "o", "w", "n", "t", "o", "w", "n", " ", "j", "e", "j", "u">>,
               <<"h", "o", "n", "g", "d", "a", "e">>,
               <<"m", "y", "e", "o", "n", "g", "-", "d", "o", "n", "g">>,
               <<"d", "o", "n", "g", "d", "a", "e", "m", "u", "n">>,
               <<"g", "a", "n", "g", "s", "e", "o">>,
               <<"s", "o", "n", "g", "p", "a">>,
               <<"j", "u", "n", "g", "-", "g", "u">>,
               <<"m", "a", "p", "o", "-", "g", "u">>,
               <<"h", "a", "e", "u", "n", "d", "a", "e", "-", "g", "u">>>>,
         replace |-> <<<<<<"-">>, <<>>>>, <<<<" ">>, <<>>>>>>,
         remove_patterns |-> <<>>],
     address |->
        [remove_words |-> <<<<"r", "o", "o", "m">>>>,
         remove_regions |->
             <<<<"m", "a", "p", "o", "-", "g", "u">>,
               <<"j", "u", "n", "g", "-", "g", "u">>,
               <<"s", "o", "n", "g", "p", "a">>,
               <<"g", "a", "n", "g", "s", "e", "o">>,
               <<"h", "a", "e", "u", "n", "d", "a", "e", "-", "g", "u">>,
               <<"d", "o", "n", "g", "d", "a", "e", "m", "u", "n">>,
               <<"h", "o", "n", "g", "d", "a", "e">>,
               <<"d", "o", "w", "n", "t", "o", "w", "n", " ", "j", "e", "j", "u">>,
               <<"j", "e", "j", "u", "-", "s", "i">>,
               <<"b", "u", "s", "a", "n">>,
               <<"s", "e", "o", "u", "l">>,
               <<"k", "o", "r", "e", "a">>,
               <<"s", "o", "u", "t", "h", " ", "k", "o", "r", "e", "a">>,
               <<"j", "e", "j", "u", "-", "d", "o">>>>,
         replace |-> <<<<<<"-">>, <<" ">>>>, <<<<" ", " ">>, <<" ">>>>>>,
         remove_patterns |-> <<>>]]

\* rules[key] with key = "address" if is_address else "name".
RulesOf(rules, is_address) == IF is_address THEN rules.address ELSE rules.name

\* One of the loops of lines 300-342 from the k-th entry on: an entry that
\* fails the validity test is skipped, the others are removed by re.sub.
\* A string that has become empty stays empty under every re.sub.
RECURSIVE SubEach(_, _, _, _)
SubEach(s, words, how, k) ==
    IF k > Len(words) \/ s = <<>> THEN s
    ELSE SubEach(IF ~ValidWord(words[k]) THEN s
                 ELSE IF how = "word" THEN SubWord(s, words[k], TRUE)
                 ELSE IF how = "plain" THEN SubWord(s, words[k], FALSE)
                 ELSE SubRegion(s, words[k]),
                 words, how, k + 1)

\* Lines 344-346 from the k-th item on.
RECURSIVE ReplaceEach(_, _, _)
ReplaceEach(s, items, k) ==
    IF k > Len(items) THEN s
    ELSE ReplaceEach(Replace(s, items[k][1], items[k][2]), items, k + 1)

\* Lines 300-346 for one of the two strings: remove_words, then the
\* suffixes and cities of a name or the regions of an address, then the
\* replacements.  remove_patterns is read nowhere.
Normalize(s, rules, is_address) ==
    LET r == RulesOf(rules, is_address)
        a == SubEach(s, r.remove_words, "word", 1)
        b == IF is_address
             THEN SubEach(a, r.remove_regions, "region", 1)
             ELSE SubEach(SubEach(a, r.remove_suffixes, "plain", 1),
                          r.remove_cities, "plain", 1)
    IN  ReplaceEach(b, r.replace, 1)

\* ------------------------------------------------ fuzz.token_sort_ratio

\* utils.full_process: every character that is not \w becomes a space, then
\* lower() and strip().
full_process(s) ==
    Strip(Lower([i \in 1..Len(s) |-> IF IsWordChar(s[i]) THEN s[i] ELSE " "]))

\* str.split(): the runs of characters that are not whitespace.
RECURSIVE SplitWs(_)
SplitWs(s) ==
    LET t == LStrip(s)
    IN  IF t = <<>> THEN <<>>
        ELSE LET n == CHOOSE k \in 1..Len(t) :
                          /\ \A j \in 1..k : ~IsSpace(t[j])
                          /\ (k = Len(t) \/ IsSpace(t[k + 1]))
             IN  <<SubSeq(t, 1, n)>> \o SplitWs(SubSeq(t, n + 1, Len(t)))

\* The order of the characters a processed string is made of.
CharOrder == DigitChars \o <<"_">> \o Lowercase

\* t1 < t2 as Python compares two str.
RECURSIVE StrLess(_, _)
StrLess(t1, t2) ==
    IF t2 = <<>> THEN FALSE
    ELSE IF t1 = <<>> THEN TRUE
    ELSE IF Head(t1) = Head(t2) THEN StrLess(Tail(t1), Tail(t2))
    ELSE IndexOf(Head(t1), CharOrder) < IndexOf(Head(t2), CharOrder)

\* sorted(tokens)
RECURSIVE Sorted(_)
Sorted(tokens) ==
    IF tokens = <<>> THEN <<>>
    ELSE LET i == CHOOSE k \in 1..Len(tokens) :
                      \A j \in 1..Len(tokens) : ~StrLess(tokens[j], tokens[k])
         IN  <<tokens[i]>>
               \o Sorted(SubSeq(tokens, 1, i - 1) \o SubSeq(tokens, i + 1, Len(tokens)))

\* " ".join(tokens)
RECURSIVE Join(_)
Join(tokens) ==
    IF tokens = <<>> THEN <<>>
    ELSE IF Len(tokens) = 1 THEN tokens[1]
    ELSE tokens[1] \o <<" ">> \o Join(Tail(tokens))

\* fuzz._process_and_sort
process_and_sort(s) == Strip(Join(Sorted(SplitWs(full_process(s)))))

\* Row i of the longest-common-subsequence table from the row above it:
\* entry j is the length of the longest common subsequence of the first i
\* characters of a (the last of them being c) and the first j of b.
LcsRow(above, c, b) ==
    SubSeq([j \in 1..Len(b) |->
               LET hits == {k \in 1..j : b[k] = c}
                   ends == {(IF k = 1 THEN 0 ELSE above[k - 1]) + 1 : k \in hits}
               IN  CHOOSE x \in ends \cup {above[j]} :
                       \A y \in ends \cup {above[j]} : y <= x],
           1, Len(b))

\* The table row by row: rows holds row 0 (all zero) and the rows of the
\* characters of a taken so far.
RECURSIVE LcsRows(_, _, _)
LcsRows(a, b, rows) ==
    IF Len(rows) > Len(a) THEN rows
    ELSE LcsRows(a, b, Append(rows, LcsRow(rows[Len(rows)], a[Len(rows)], b)))

\* Matching characters as python-Levenshtein counts them: its ratio is
\* (lensum - ldist) / lensum with a substitution costing 2, which is
\* 2 * LCS / lensum.
LevMatches(a, b) ==
    IF a = <<>> \/ b = <<>> THEN 0
    ELSE LcsRows(a, b, <<[j \in 1..Len(b) |-> 0]>>)[Len(a) + 1][Len(b)]

\* Matching characters as difflib.SequenceMatcher counts them: the longest
\* common block (the leftmost in a, then the leftmost in b), then the same
\* to the left and to the right of it.
RECURSIVE SeqMatches(_, _)
SeqMatches(a, b) ==
    LET blocks == {x \in (1..Len(a)) \X (1..Len(b)) \X (1..Len(a)) :
                      /\ x[1] + x[3] - 1 <= Len(a)
                      /\ x[2] + x[3] - 1 <= Len(b)
                      /\ SubSeq(a, x[1], x[1] + x[3] - 1)
                           = SubSeq(b, x[2], x[2] + x[3] - 1)}
    IN  IF blocks = {} THEN 0
        ELSE LET m == CHOOSE x \in blocks : \A y \in blocks :
                          \/ y[3] < x[3]
                          \/ (y[3] = x[3] /\ y[1] > x[1])
                          \/ (y[3] = x[3] /\ y[1] = x[1] /\ y[2] >= x[2])
             IN  m[3]
                 + SeqMatches(SubSeq(a, 1, m[1] - 1), SubSeq(b, 1, m[2] - 1))
                 + SeqMatches(SubSeq(a, m[1] + m[3], Len(a)),
                              SubSeq(b, m[2] + m[3], Len(b)))

\* utils.intr(100 * 2.0 * matches / lensum): round() to the nearest
\* integer, a half going to the even one.
Intr(matches, lensum) ==
    LET q == (200 * matches) \div lensum
        r == (200 * matches) % lensum
    IN  IF 2 * r > lensum \/ (2 * r = lensum /\ q % 2 = 1) THEN q + 1 ELSE q

\* fuzz.ratio with its decorators: 100 for equal strings, 0 when one is
\* empty, the rounded ratio otherwise.
fuzz_ratio(s1, s2, matches) ==
    IF s1 = s2 THEN 100
    ELSE IF s1 = <<>> \/ s2 = <<>> THEN 0
    ELSE Intr(matches, Len(s1) + Len(s2))

\* The SequenceMatcher fuzzywuzzy imports: StringMatcher where
\* python-Levenshtein is installed, difflib's otherwise.
SequenceMatchers == {"StringMatcher", "difflib"}

\* fuzz.token_sort_ratio(s1, s2) with the given SequenceMatcher.
token_sort_ratio(s1, s2, matcher) ==
    LET a == process_and_sort(s1)
        b == process_and_sort(s2)
    IN  fuzz_ratio(a, b, IF matcher = "difflib" THEN SeqMatches(a, b)
                         ELSE LevMatches(a, b))

\* ------------------------------------------------- the rule store on disk

\* similarity_rules.json: not there, there with a whole JSON document, or
\* there with the empty or partial text that open(json_file, 'w') and an
\* unfinished json.dump leave.
NoFile == [exists |-> FALSE]
TruncatedFile == [exists |-> TRUE, json |-> FALSE]
WholeFile(doc) == [exists |-> TRUE, json |-> TRUE, doc |-> doc]

\* load_similarity_rules(json_file): the file afterwards and what is
\* returned; json.load raises on text that is no JSON document.
load_similarity_rules(json_file) ==
    IF ~json_file.exists
    THEN [file |-> WholeFile(default_rules), raised |-> FALSE, rules |-> default_rules]
    ELSE IF ~json_file.json
    THEN [file |-> json_file, raised |-> TRUE, rules |-> default_rules]
    ELSE [file |-> json_file, raised |-> FALSE, rules |-> json_file.doc]

\* ------------------------------------ update_similarity_rules_with_gpt

\* What the service call of lines 253-262 comes back with: it raised, or
\* its message content is no JSON, or it is a JSON object with the keys of
\* `keys`.
ServiceRaised ==
    [raised |-> TRUE, json |-> FALSE, keys |-> {}, is_same |-> FALSE,
     redundant_words |-> <<>>, redundant_patterns |-> <<>>]

NotJson ==
    [raised |-> FALSE, json |-> FALSE, keys |-> {}, is_same |-> FALSE,
     redundant_words |-> <<>>, redundant_patterns |-> <<>>]

JsonReply(keys, is_same, redundant_words, redundant_patterns) ==
    [raised |-> FALSE, json |-> TRUE, keys |-> keys, is_same |-> is_same,
     redundant_words |-> redundant_words,
     redundant_patterns |-> redundant_patterns]

AllKeys == {"is_same", "redundant_words", "redundant_patterns"}

\* Lines 273-275 and 276-279 with the membership test left out.
RECURSIVE AppendAll(_, _, _)
AppendAll(list, values, k) ==
    IF k > Len(values) THEN list
    ELSE AppendAll(Append(list, values[k]), values, k + 1)

\* Lines 273-275 and 276-279 from the k-th value on: a value is appended
\* unless the list holds it already.
RECURSIVE AppendNew(_, _, _)
AppendNew(list, values, k) ==
    IF k > Len(values) THEN list
    ELSE AppendNew(IF IsIn(values[k], list) THEN list
                   ELSE Append(list, values[k]),
                   values, k + 1)

\* Line 264 taken for true whatever the reply says.
JudgedSameAlways(reply) == TRUE

\* Line 264: if result["is_same"].
JudgedSame(reply) == reply.is_same

\* update_similarity_rules_with_gpt from the reply on (lines 262-288), for
\* the rules that line 265 loads: whether line 282 is reached, the rules
\* it dumps there and what the function returns.  Every exception on the
\* way (no JSON, a missing key) lands in the except clause, which returns
\* False.
update_similarity_rules_with_gpt(rules, reply, is_address) ==
    IF reply.raised \/ ~reply.json \/ "is_same" \notin reply.keys
    THEN [write |-> FALSE, rules |-> rules, returned |-> FALSE]
    ELSE IF ~JudgedSame(reply)
    THEN [write |-> FALSE, rules |-> rules, returned |-> reply.is_same]
    ELSE IF "redundant_words" \notin reply.keys
            \/ "redundant_patterns" \notin reply.keys
    THEN [write |-> FALSE, rules |-> rules, returned |-> FALSE]
    ELSE LET r == RulesOf(rules, is_address)
             words == AppendNew(r.remove_words,
                                SelectSeq(reply.redundant_words, ValidWord), 1)
             patterns == AppendNew(r.remove_patterns,
                                   SelectSeq(reply.redundant_patterns, ValidPattern), 1)
             new == [r EXCEPT !.remove_words = words,
                              !.remove_patterns = patterns]
         IN  [write |-> TRUE,
              rules |-> IF is_address THEN [rules EXCEPT !.address = new]
                        ELSE [rules EXCEPT !.name = new],
              returned |-> reply.is_same]

\* Line 350 with the threshold itself counted as low.
LowConfidenceInclusive(similarity_now) == similarity_now <= LowConfidence

\* Line 350: if similarity < 50.
IsLowConfidence(similarity_now) == similarity_now < LowConfidence

\* ------------------------------------------ calculate_similarity, by step

\* How many calls of calculate_similarity one run is followed through.
MaxCalls == 2

\* Pairs of names and pairs of addresses as callers hand them over: a str,
\* None for a field the page does not have, NaN for an empty cell.
NamePairs ==
    {<<StrV(<<"L", "o", "t", "t", "e", " ", "H", "o", "t", "e", "l">>), StrV(<<"l", "o", "t", "t", "e", " ", "s", "e", "o", "u", "l">>)>>,
     <<StrV(<<"g", "r", "a", "n", "d", " ", "i", "n", "n">>), StrV(<<"L", "o", "t", "t", "e", " ", "H", "o", "t", "e", "l">>)>>,
     <<StrV(<<"g", "r", "a", "n", "d", " ", "i", "n", "n">>), StrV(<<"g", "r">>)>>,
     <<StrV(<<"h", "o", "-", "t", "e", "l">>), StrV(<<"l", "o", "t", " ", "t", "e", "s", "t">>)>>,
     <<StrV(<<"t", "i", "d", "e">>), StrV(<<"d", "i", "e", "t">>)>>,
     <<StrV(<<>>), StrV(<<"L", "o", "t", "t", "e", " ", "H", "o", "t", "e", "l">>)>>,
     <<None, StrV(<<"L", "o", "t", "t", "e", " ", "H", "o", "t", "e", "l">>)>>,
     <<StrV(<<>>), StrV(<<>>)>>,
     <<NaN, StrV(<<"L", "o", "t", "t", "e", " ", "H", "o", "t", "e", "l">>)>>,
     <<NaN, None>>}

AddressPairs ==
    {<<StrV(<<"1", " ", "-", " ", "2">>), StrV(<<"1", " ", "2", ",", " ", "S", "e", "o", "u", "l">>)>>,
     <<StrV(<<"R", "o", "o", "m", " ", "9">>), StrV(<<"7", " ", "m", "a", "i", "n">>)>>,
     <<StrV(<<>>), StrV(<<"R", "o", "o", "m", " ", "9">>)>>,
     <<None, StrV(<<"R", "o", "o", "m", " ", "9">>)>>}

\* The arguments of a call: every pair in both orders.
SimInputs ==
    {[str1 |-> p[1], str2 |-> p[2], is_address |-> FALSE] : p \in NamePairs}
    \cup {[str1 |-> p[2], str2 |-> p[1], is_address |-> FALSE] : p \in NamePairs}
    \cup {[str1 |-> p[1], str2 |-> p[2], is_address |-> TRUE] : p \in AddressPairs}
    \cup {[str1 |-> p[2], str2 |-> p[1], is_address |-> TRUE] : p \in AddressPairs}

Inn == <<"i", "n", "n">>

\* Replies of the service to the prompt of lines 241-252.
LearnReplies ==
    {ServiceRaised,
     NotJson,
     JsonReply({"redundant_words", "redundant_patterns"}, FALSE, <<Inn>>, <<>>),
     JsonReply(AllKeys, FALSE, <<Inn>>, <<Inn>>),
     JsonReply({"is_same", "redundant_patterns"}, TRUE, <<>>, <<Inn>>),
     JsonReply({"is_same", "redundant_words"}, TRUE, <<Inn>>, <<>>),
     JsonReply(AllKeys, TRUE,
               <<Inn, Inn, <<"h", "o", "t", "e", "l">>, <<>>, <<"i", "n", "!">>>>,
               <<Inn, <<"i", "n", "+">>, Inn, <<"o", "'", "n">>>>)}

NoArgs == [str1 |-> None, str2 |-> None, is_address |-> FALSE]
NoReturn == [done |-> FALSE, value |-> 0]
Returned(value) == [done |-> TRUE, value |-> value]

VARIABLES
    sim_pc,              \* idle, asked, dumping, raised, dead
    rules_file,          \* similarity_rules.json
    SequenceMatcher,     \* the one fuzzywuzzy imported in this run
    args,                \* the arguments of the call, as given
    str1,                \* the two locals after lines 295-346
    str2,
    similarity,          \* what line 348 assigned
    rules,               \* the rules update_similarity_rules_with_gpt dumps
    gpt_result,          \* the reply of the service in this call
    returned,            \* what calculate_similarity returned
    learn_calls,         \* calls of update_similarity_rules_with_gpt in this call
    n_calls,             \* calls of calculate_similarity so far
    dumps,               \* times the rules were written by line 283 so far
    repeated,            \* the call has the arguments of the call before it
    prev                 \* the call before this one, where it is kept

simvars == <<sim_pc, rules_file, SequenceMatcher, args, str1, str2,
             similarity, rules, gpt_result, returned, learn_calls, n_calls,
             dumps, repeated, prev>>

\* The call that is over, as the next call finds it.
LastCall ==
    [args |-> args, returned |-> returned, gpt_result |-> gpt_result,
     learn_calls |-> learn_calls]

\* No call of calculate_similarity has been made.
SimAtRest ==
    /\ sim_pc = "idle"
    /\ args = NoArgs
    /\ str1 = <<>>
    /\ str2 = <<>>
    /\ similarity = 0
    /\ rules = default_rules
    /\ gpt_result = NotJson
    /\ returned = NoReturn
    /\ learn_calls = 0
    /\ n_calls = 0
    /\ dumps = 0
    /\ repeated = FALSE
    /\ prev = [args |-> NoArgs, returned |-> NoReturn, gpt_result |-> NotJson,
               learn_calls |-> 0]

\* One run of main() after another, followed by its bookkeeping only: a
\* row is known by the code of its hotel.
VARIABLES
    run_pc,              \* loop, export_test, done, interrupted
    run_idx,             \* number of hotels the for loop has taken
    loaded_codes,        \* processed_codes as loaded at the start of the run
    batch_results,       \* the batch buffer
    batch_num,
    exported,            \* the batch files written so far, by all runs
    log_file,            \* the lines of processed_hotels.log
    n_runs               \* runs started so far

runvars == <<run_pc, run_idx, loaded_codes, batch_results, batch_num,
             exported, log_file, n_runs>>

RunAtRest ==
    /\ run_pc = "loop"
    /\ run_idx = 0
    /\ loaded_codes = {}
    /\ batch_results = <<>>
    /\ batch_num = 1
    /\ exported = <<>>
    /\ log_file = <<>>
    /\ n_runs = 1

\* Two processes inside update_similarity_rules_with_gpt on the same
\* similarity_rules.json (rules_file).
VARIABLES
    writer_pc,           \* per process: asked, loaded, opened, returned
    writer_rules,        \* per process: the rules it loaded at line 265
    writer_reply,        \* per process: the reply it got
    writer_returned      \* per process: what the function returned

writervars == <<writer_pc, writer_rules, writer_reply, writer_returned>>

\* The proxy pool in Redis and one call of scrape_agoda_page_pyppeteer.
VARIABLES
    proxy_scores,        \* the hash PROXY_SCORE_KEY: proxy -> score
    redis_py,            \* the redis-py release the run imports
    scrape_pc,           \* idle, trying, returned
    proxy,               \* the proxy argument of the call
    attempt,             \* attempts made so far in the call
    outcome,             \* what the last attempt did
    scrape_result,       \* pending, or what the call returned: record, absent
    disabled             \* proxies removed for low score and not loaded since

poolvars == <<proxy_scores, redis_py, scrape_pc, proxy, attempt, outcome,
              scrape_result, disabled>>

\* The processes that may run the program in one directory at a time.
Writers == {1, 2}

WritersAtRest ==
    /\ writer_pc = [w \in Writers |-> "returned"]
    /\ writer_rules = [w \in Writers |-> default_rules]
    /\ writer_reply = [w \in Writers |-> NotJson]
    /\ writer_returned = [w \in Writers |-> FALSE]

\* The proxies of the proxy file, and the fields the hash may hold: a
\* proxy, or the str 'None'.
Proxies == {<<"p", "1">>, <<"p", "2">>}
Fields == Proxies \cup {<<"N", "o", "n", "e">>}

\* A field the hash does not hold.
NoField == [stored |-> FALSE, score |-> 0]

\* The hash after redis_client.delete(PROXY_SCORE_KEY), and before the
\* first hset.
NoHash == [f \in Fields |-> NoField]

\* What an attempt did: nothing yet.
NoAttempt == [kind |-> "none", class |-> "none", message |-> <<>>]

PoolAtRest ==
    /\ proxy_scores = NoHash
    /\ redis_py = 3
    /\ scrape_pc = "idle"
    /\ proxy = None
    /\ attempt = 0
    /\ outcome = NoAttempt
    /\ scrape_result = "pending"
    /\ disabled = {}

vars == <<mainvars, simvars, runvars, writervars, poolvars>>

\* ------------------------------------------------------------------ main()

\* The locals of main() before the loop.
MainAtRest ==
    /\ pc = "loop"
    /\ idx = 0
    /\ hotel = NoHotel
    /\ hotel_links = <<>>
    /\ agoda_data = NoData
    /\ name_similarity = 0
    /\ address_similarity = 0
    /\ distance_m = Inf
    /\ postal_match = FALSE
    /\ postal_needs_review = FALSE
    /\ score = 0
    /\ gpt_reply = NoReply
    /\ gpt_score = 0
    /\ gpt_calls = 0
    /\ scrape_count = 0
    /\ current_proxy = "none"
    /\ batch_len = 0
    /\ result = NoRow
    /\ processed_log = <<>>
    /\ calls = <<>>
    /\ results = <<>>
    /\ unmatched_hotels = <<>>

\* What the two calculate_similarity calls of an iteration do to the rules
\* file is followed call by call under SpecSim; main() is followed here
\* with their outcomes.
Init ==
    /\ MainAtRest
    /\ processed_codes \in SUBSET (1..MaxHotels)
    /\ SimAtRest
    /\ rules_file = NoFile
    /\ SequenceMatcher = "difflib"
    /\ RunAtRest
    /\ WritersAtRest
    /\ PoolAtRest

\* The locals of one iteration, as they are before the iteration sets them.
ResetIteration ==
    /\ hotel_links' = <<>>
    /\ agoda_data' = NoData
    /\ name_similarity' = 0
    /\ address_similarity' = 0
    /\ distance_m' = Inf
    /\ postal_match' = FALSE
    /\ postal_needs_review' = FALSE
    /\ score' = 0
    /\ gpt_reply' = NoReply
    /\ gpt_score' = 0
    /\ result' = NoRow
    /\ calls' = <<>>

\* Lines 623-628: the hotel's code is in the processed set.
SkipProcessed ==
    /\ pc = "loop"
    /\ idx < MaxHotels
    /\ (idx + 1) \in processed_codes
    /\ idx' = idx + 1
    /\ UNCHANGED <<pc, processed_codes, hotel, hotel_links, agoda_data,
                   name_similarity, address_similarity, distance_m,
                   postal_match, postal_needs_review, score, gpt_reply,
                   gpt_score, gpt_calls, scrape_count, current_proxy,
                   batch_len, result, processed_log, calls>>
    /\ UNCHANGED <<results, unmatched_hotels>>
    /\ UNCHANGED <<simvars, runvars, writervars, poolvars>>

\* Line 635.
NeedsProxy ==
    scrape_count % ProxySwitchEvery = 0 \/ scrape_count = 0 \/ current_proxy = "none"

\* Lines 623-640 for a hotel that is not skipped; get_best_proxy returns a
\* proxy or None, and None ends the loop (line 639).
TakeHotel ==
    /\ pc = "loop"
    /\ idx < MaxHotels
    /\ (idx + 1) \notin processed_codes
    /\ idx' = idx + 1
    /\ \E h \in LocalHotels : hotel' = [h EXCEPT !.code = idx + 1]
    /\ ResetIteration
    /\ \E p \in (IF NeedsProxy THEN {"none", "proxy"} ELSE {current_proxy}) :
          /\ current_proxy' = p
          /\ pc' = IF p = "none" THEN "done" ELSE "search"
          /\ batch_len' = IF p = "none" THEN 0 ELSE batch_len
          /\ unmatched_hotels' = IF p = "none" THEN Unmatched(results)
                                ELSE unmatched_hotels
    /\ UNCHANGED <<processed_codes, gpt_calls, scrape_count, processed_log>>
    /\ UNCHANGED results
    /\ UNCHANGED <<simvars, runvars, writervars, poolvars>>

\* Lines 642-673: search_agoda_hotel returns [] and the no-match row is
\* appended, or it returns one link.
Search ==
    /\ pc = "search"
    /\ calls' = Append(calls, "search_agoda_hotel")
    /\ \E links \in {<<>>, <<"url">>} :
          /\ hotel_links' = links
          /\ IF links = <<>>
             THEN /\ result' = NoMatchRow(hotel.code, FALSE)
                  /\ batch_len' = batch_len + 1
                  /\ processed_log' = Append(processed_log, hotel.code)
                  /\ pc' = "loop"
             ELSE /\ pc' = "scrape"
                  /\ UNCHANGED <<result, batch_len, processed_log>>
    /\ UNCHANGED <<idx, processed_codes, hotel, agoda_data, name_similarity,
                   address_similarity, distance_m, postal_match,
                   postal_needs_review, score, gpt_reply, gpt_score,
                   gpt_calls, scrape_count, current_proxy>>
    /\ UNCHANGED <<results, unmatched_hotels>>
    /\ UNCHANGED <<simvars, runvars, writervars, poolvars>>

\* Lines 675-707: the scrape returns None and the no-match row is appended
\* with url_found = True, or it returns a candidate record.
Scrape ==
    /\ pc = "scrape"
    /\ scrape_count' = scrape_count + 1
    /\ calls' = Append(calls, "scrape_agoda_page_pyppeteer")
    /\ \/ /\ agoda_data' = NoData
          /\ current_proxy' = "none"
          /\ result' = NoMatchRow(hotel.code, TRUE)
          /\ batch_len' = batch_len + 1
          /\ processed_log' = Append(processed_log, hotel.code)
          /\ pc' = "loop"
       \/ /\ agoda_data' \in Candidates
          /\ pc' = "compare"
          /\ UNCHANGED <<current_proxy, result, batch_len, processed_log>>
    /\ UNCHANGED <<idx, processed_codes, hotel, hotel_links, name_similarity,
                   address_similarity, distance_m, postal_match,
                   postal_needs_review, score, gpt_reply, gpt_score, gpt_calls>>
    /\ UNCHANGED <<results, unmatched_hotels>>
    /\ UNCHANGED <<simvars, runvars, writervars, poolvars>>

Learned(r) == IF r.learn THEN <<"update_similarity_rules_with_gpt">> ELSE <<>>

\* Lines 711-713 in the order Python runs them, up to the first statement
\* that raises: what each local holds afterwards and the calls made.
Measure(h, a, rn, sn, ra, sa, dist) ==
    LET n == calculate_similarity(h.name_en, a.hotel_name, rn, sn)
        c1 == <<"calculate_similarity">> \o Learned(n)
        ad == calculate_similarity(
                  FirstPart(h.addr_en),
                  IF Truthy(a.address) THEN FirstPart(a.address) ELSE None,
                  ra, sa)
        c2 == c1 \o <<"calculate_similarity">> \o Learned(ad)
    IN  IF n.raised
        THEN [raised |-> TRUE, n |-> 0, a |-> 0, d |-> Inf, made |-> c1]
        ELSE IF h.addr_en.tag # "str" \/ ad.raised
        THEN [raised |-> TRUE, n |-> n.value, a |-> 0, d |-> Inf, made |-> c2]
        ELSE IF dist.raised
        THEN [raised |-> TRUE, n |-> n.value, a |-> ad.value, d |-> Inf,
              made |-> c2 \o <<"calculate_distance">>]
        ELSE [raised |-> FALSE, n |-> n.value, a |-> ad.value, d |-> dist.d,
              made |-> c2 \o <<"calculate_distance">>]

\* What update_similarity_rules_with_gpt may answer for a ratio; it is only
\* asked below the threshold.
Verdicts(ratio) == IF ratio < LowConfidence THEN BOOLEAN ELSE {FALSE}

\* Lines 709-721.  An exception raised here is caught nowhere: it leaves
\* main() and ends the run.
Compare ==
    /\ pc = "compare"
    /\ \E rn \in NameRatios, ra \in AddrRatios :
       \E sn \in Verdicts(rn), sa \in Verdicts(ra) :
       \E dist \in calculate_distance(hotel.latitude, hotel.longitude,
                                      agoda_data.latitude, agoda_data.longitude) :
          LET m == Measure(hotel, agoda_data, rn, sn, ra, sa, dist)
              match == PostalMatch(hotel, agoda_data)
          IN  /\ calls' = calls \o m.made
              /\ name_similarity' = m.n
              /\ address_similarity' = m.a
              /\ distance_m' = m.d
              /\ IF m.raised
                 THEN /\ pc' = "crashed"
                      /\ UNCHANGED <<postal_match, postal_needs_review, score>>
                 ELSE /\ pc' = "scored"
                      /\ postal_match' = match
                      /\ postal_needs_review' = PostalNeedsReview(agoda_data, match)
                      /\ score' = DistanceAdjust(BaseScore(m.n, m.a, match), m.d)
    /\ UNCHANGED <<idx, processed_codes, hotel, hotel_links, agoda_data,
                   gpt_reply, gpt_score, gpt_calls, scrape_count,
                   current_proxy, batch_len, result, processed_log>>
    /\ UNCHANGED <<results, unmatched_hotels>>
    /\ UNCHANGED <<simvars, runvars, writervars, poolvars>>

\* Lines 723-727.
Arbitrate ==
    /\ pc = "scored"
    /\ InBand(score)
    /\ \E reply \in Replies :
          LET g == gpt_fuzzy_match(hotel, agoda_data, reply)
          IN  /\ gpt_reply' = reply
              /\ gpt_score' = g
              /\ score' = Blend(score, g)
    /\ gpt_calls' = gpt_calls + 1
    /\ calls' = Append(calls, "gpt_fuzzy_match")
    /\ pc' = "blended"
    /\ UNCHANGED <<idx, processed_codes, hotel, hotel_links, agoda_data,
                   name_similarity, address_similarity, distance_m,
                   postal_match, postal_needs_review, scrape_count,
                   current_proxy, batch_len, result, processed_log>>
    /\ UNCHANGED <<results, unmatched_hotels>>
    /\ UNCHANGED <<simvars, runvars, writervars, poolvars>>

\* Lines 729-767: the row of a compared pair, the processed log and the
\* export of a full batch.
AppendResult ==
    /\ \/ pc = "blended"
       \/ pc = "scored" /\ ~InBand(score)
    /\ result' = Row(hotel.code, name_similarity, address_similarity,
                          distance_m, postal_match, postal_needs_review,
                          score, TRUE)
    /\ batch_len' = AfterExportTest(batch_len + 1)
    /\ processed_log' = Append(processed_log, hotel.code)
    /\ pc' = "loop"
    /\ UNCHANGED <<idx, processed_codes, hotel, hotel_links, agoda_data,
                   name_similarity, address_similarity, distance_m,
                   postal_match, postal_needs_review, score, gpt_reply,
                   gpt_score, gpt_calls, scrape_count, current_proxy, calls>>
    /\ UNCHANGED <<results, unmatched_hotels>>
    /\ UNCHANGED <<simvars, runvars, writervars, poolvars>>

\* Lines 769-807: the loop is over; what is left of the batch is exported.
Finish ==
    /\ pc = "loop"
    /\ idx = MaxHotels
    /\ pc' = "done"
    /\ batch_len' = 0
    /\ unmatched_hotels' = Unmatched(results)
    /\ UNCHANGED <<idx, processed_codes, hotel, hotel_links, agoda_data,
                   name_similarity, address_similarity, distance_m,
                   postal_match, postal_needs_review, score, gpt_reply,
                   gpt_score, gpt_calls, scrape_count, current_proxy,
                   result, processed_log, calls>>
    /\ UNCHANGED results
    /\ UNCHANGED <<simvars, runvars, writervars, poolvars>>

Next ==
    \/ SkipProcessed
    \/ TakeHotel
    \/ Search
    \/ Scrape
    \/ Compare
    \/ Arbitrate
    \/ AppendResult
    \/ Finish

Spec == Init /\ [][Next]_vars

\* ------------------------------------- calculate_similarity, call by call

\* Lines 291-350: the early return, lower() and strip(), the rules loaded
\* (and the file created when it is not there), both strings normalised,
\* the ratio, and the threshold test that decides whether
\* update_similarity_rules_with_gpt is called.
CalculateSimilarity(given) ==
    /\ sim_pc = "idle"
    /\ n_calls' = n_calls + 1
    /\ repeated' = (n_calls > 0 /\ given = args)
    /\ gpt_result' = NotJson
    /\ rules' = default_rules
    /\ args' = given
    /\ IF ~Truthy(given.str1) \/ ~Truthy(given.str2)
       THEN /\ returned' = Returned(0)
            /\ sim_pc' = "idle"
            /\ str1' = <<>> /\ str2' = <<>>
            /\ similarity' = 0
            /\ learn_calls' = 0
            /\ UNCHANGED rules_file
       ELSE IF given.str1.tag # "str" \/ given.str2.tag # "str"
               \/ load_similarity_rules(rules_file).raised
       THEN /\ returned' = NoReturn
            /\ sim_pc' = "raised"
            /\ str1' = <<>> /\ str2' = <<>>
            /\ similarity' = 0
            /\ learn_calls' = 0
            /\ UNCHANGED rules_file
       ELSE LET loaded == load_similarity_rules(rules_file)
                s1 == Normalize(Strip(Lower(given.str1.val)), loaded.rules,
                                given.is_address)
                s2 == Normalize(Strip(Lower(given.str2.val)), loaded.rules,
                                given.is_address)
            IN  /\ rules_file' = loaded.file
                /\ str1' = s1
                /\ str2' = s2
                /\ similarity' = token_sort_ratio(str1', str2', SequenceMatcher)
                /\ IF IsLowConfidence(similarity')
                   THEN /\ sim_pc' = "asked"
                        /\ learn_calls' = 1
                        /\ returned' = NoReturn
                   ELSE /\ sim_pc' = "idle"
                        /\ learn_calls' = 0
                        /\ returned' = Returned(similarity')
    /\ UNCHANGED <<SequenceMatcher, dumps>>
    /\ UNCHANGED <<mainvars, runvars, writervars, poolvars>>

\* Lines 253-282 and 286-288, 351-354: the service answers, the reply is
\* parsed and the proposals are checked against the loaded rules.  Either
\* the function returns without writing, and calculate_similarity returns
\* with it, or line 282 opens the file for writing, which empties it.
UpdateSimilarityRulesWithGpt ==
    /\ sim_pc = "asked"
    /\ \E reply \in LearnReplies :
          LET u == update_similarity_rules_with_gpt(
                       load_similarity_rules(rules_file).rules, reply,
                       args.is_address)
          IN  /\ gpt_result' = reply
              /\ IF u.write
                 THEN /\ rules' = u.rules
                      /\ rules_file' = TruncatedFile
                      /\ sim_pc' = "dumping"
                      /\ UNCHANGED returned
                 ELSE /\ returned' = Returned(IF u.returned THEN 100 ELSE similarity)
                      /\ sim_pc' = "idle"
                      /\ UNCHANGED <<rules, rules_file>>
    /\ UNCHANGED <<SequenceMatcher, args, str1, str2, similarity, learn_calls,
                   n_calls, dumps, repeated, prev>>
    /\ UNCHANGED <<mainvars, runvars, writervars, poolvars>>

\* Lines 283-285 and 351-354: json.dump writes the rules, the file is
\* closed, and calculate_similarity returns 100 for a true is_same.
DumpRules ==
    /\ sim_pc = "dumping"
    /\ rules_file' = WholeFile(rules)
    /\ returned' = Returned(IF gpt_result.is_same THEN 100 ELSE similarity)
    /\ sim_pc' = "idle"
    /\ dumps' = dumps + 1
    /\ UNCHANGED <<SequenceMatcher, args, str1, str2, similarity, rules,
                   gpt_result, learn_calls, n_calls, repeated, prev>>
    /\ UNCHANGED <<mainvars, runvars, writervars, poolvars>>

\* The process ends between line 282 and the end of line 283 (killed, or
\* the machine goes down): the file stays as the unfinished write left it.
CrashWhileDumping ==
    /\ sim_pc = "dumping"
    /\ sim_pc' = "dead"
    /\ UNCHANGED <<rules_file, SequenceMatcher, args, str1, str2, similarity,
                   rules, gpt_result, returned, learn_calls, n_calls, dumps,
                   repeated, prev>>
    /\ UNCHANGED <<mainvars, runvars, writervars, poolvars>>

\* A caller calls calculate_similarity, as lines 711 and 712 do for every
\* compared pair.
Call ==
    /\ n_calls < MaxCalls
    /\ \E given \in SimInputs : CalculateSimilarity(given)
    /\ UNCHANGED prev

SimNext ==
    \/ Call
    \/ UpdateSimilarityRulesWithGpt
    \/ DumpRules
    \/ CrashWhileDumping

SimInit ==
    /\ MainAtRest
    /\ processed_codes = {}
    /\ SimAtRest
    /\ rules_file \in {NoFile, WholeFile(default_rules)}
    /\ SequenceMatcher \in SequenceMatchers
    /\ RunAtRest
    /\ WritersAtRest
    /\ PoolAtRest

SpecSim == SimInit /\ [][SimNext]_vars

\* The arguments in the other order.
Swapped(given) ==
    [str1 |-> given.str2, str2 |-> given.str1, is_address |-> given.is_address]

\* A caller compares a pair and then, on the rules file the first call
\* left, the same pair in the other order.
CallBothWays ==
    /\ n_calls < 2
    /\ \E given \in (IF n_calls = 0 THEN SimInputs ELSE {Swapped(args)}) :
          CalculateSimilarity(given)
    /\ prev' = LastCall

SymNext ==
    \/ CallBothWays
    \/ UpdateSimilarityRulesWithGpt
    \/ DumpRules
    \/ CrashWhileDumping

SpecSym == SimInit /\ [][SymNext]_vars

\* ------------------------------------------- the bookkeeping of main()

\* Hotels in the catalogue, with the codes 1..MaxRun in this order, and the
\* number of times the program is started.
MaxRun == 102
MaxRuns == 2

\* load_processed_codes (lines 575-579).
load_processed_codes(lines) == {lines[i] : i \in 1..Len(lines)}

\* export_batch_results (lines 567-573): one more file, named after the
\* batch number and the time of the export, here the run.
export_batch_results(files, rows, run, num) ==
    Append(files, [run |-> run, batch_num |-> num, rows |-> rows])

\* Lines 623-628: the code of the next hotel is in the processed set.
RunSkip ==
    /\ run_pc = "loop"
    /\ run_idx < MaxRun
    /\ (run_idx + 1) \in loaded_codes
    /\ run_idx' = run_idx + 1
    /\ UNCHANGED <<run_pc, loaded_codes, batch_results, batch_num, exported,
                   log_file, n_runs>>
    /\ UNCHANGED <<mainvars, simvars, writervars, poolvars>>

\* Lines 635-639 and 769-770: get_best_proxy returns None, the loop is
\* left and what the buffer holds is exported.
RunNoProxy ==
    /\ run_pc = "loop"
    /\ run_idx < MaxRun
    /\ (run_idx + 1) \notin loaded_codes
    /\ run_idx' = run_idx + 1
    /\ exported' = IF batch_results # <<>>
                   THEN export_batch_results(exported, batch_results, n_runs, batch_num)
                   ELSE exported
    /\ run_pc' = "done"
    /\ UNCHANGED <<loaded_codes, batch_results, batch_num, log_file, n_runs>>
    /\ UNCHANGED <<mainvars, simvars, writervars, poolvars>>

\* Lines 642-673 (no link found) and 675-707 (nothing scraped): the row is
\* appended, the code is logged and `continue` goes to the next hotel.
RunNoMatch ==
    /\ run_pc = "loop"
    /\ run_idx < MaxRun
    /\ (run_idx + 1) \notin loaded_codes
    /\ run_idx' = run_idx + 1
    /\ batch_results' = Append(batch_results, run_idx + 1)
    /\ log_file' = Append(log_file, run_idx + 1)
    /\ UNCHANGED <<run_pc, loaded_codes, batch_num, exported, n_runs>>
    /\ UNCHANGED <<mainvars, simvars, writervars, poolvars>>

\* Lines 709-762: the pair is scored, the row is appended and the code is
\* logged.
RunScored ==
    /\ run_pc = "loop"
    /\ run_idx < MaxRun
    /\ (run_idx + 1) \notin loaded_codes
    /\ run_idx' = run_idx + 1
    /\ batch_results' = Append(batch_results, run_idx + 1)
    /\ log_file' = Append(log_file, run_idx + 1)
    /\ run_pc' = "export_test"
    /\ UNCHANGED <<loaded_codes, batch_num, exported, n_runs>>
    /\ UNCHANGED <<mainvars, simvars, writervars, poolvars>>

\* Lines 764-767.
RunExportTest ==
    /\ run_pc = "export_test"
    /\ IF Len(batch_results) = batch_size
       THEN /\ exported' = export_batch_results(exported, batch_results, n_runs, batch_num)
            /\ batch_results' = <<>>
            /\ batch_num' = batch_num + 1
       ELSE UNCHANGED <<exported, batch_results, batch_num>>
    /\ run_pc' = "loop"
    /\ UNCHANGED <<run_idx, loaded_codes, log_file, n_runs>>
    /\ UNCHANGED <<mainvars, simvars, writervars, poolvars>>

\* Lines 769-770: the loop has gone through the catalogue.
RunFinish ==
    /\ run_pc = "loop"
    /\ run_idx = MaxRun
    /\ exported' = IF batch_results # <<>>
                   THEN export_batch_results(exported, batch_results, n_runs, batch_num)
                   ELSE exported
    /\ run_pc' = "done"
    /\ UNCHANGED <<run_idx, loaded_codes, batch_results, batch_num, log_file,
                   n_runs>>
    /\ UNCHANGED <<mainvars, simvars, writervars, poolvars>>

\* The process ends inside the loop: it is killed, or an exception leaves
\* main().  The files stay as they are.
RunInterrupt ==
    /\ run_pc \in {"loop", "export_test"}
    /\ run_pc' = "interrupted"
    /\ UNCHANGED <<run_idx, loaded_codes, batch_results, batch_num, exported,
                   log_file, n_runs>>
    /\ UNCHANGED <<mainvars, simvars, writervars, poolvars>>

\* Lines 606-623: the program is started again in the same directory.
RunRestart ==
    /\ run_pc \in {"done", "interrupted"}
    /\ n_runs < MaxRuns
    /\ n_runs' = n_runs + 1
    /\ loaded_codes' = load_processed_codes(log_file)
    /\ batch_results' = <<>>
    /\ batch_num' = 1
    /\ run_idx' = 0
    /\ run_pc' = "loop"
    /\ UNCHANGED <<exported, log_file>>
    /\ UNCHANGED <<mainvars, simvars, writervars, poolvars>>

RunNext ==
    \/ RunSkip
    \/ RunNoProxy
    \/ RunNoMatch
    \/ RunScored
    \/ RunExportTest
    \/ RunFinish
    \/ RunInterrupt
    \/ RunRestart

RunInit ==
    /\ MainAtRest
    /\ processed_codes = {}
    /\ SimAtRest
    /\ rules_file = NoFile
    /\ SequenceMatcher = "difflib"
    /\ RunAtRest
    /\ WritersAtRest
    /\ PoolAtRest

SpecRun == RunInit /\ [][RunNext]_vars

\* ------------------------------- two processes learning at the same time

Spa == <<"s", "p", "a">>

\* What the service answers process w (lines 253-262): the pair is the
\* same and one word is redundant, a word of its own for each process, as
\* a word or as a word and a pattern; or the pair is not the same; or the
\* answer is no JSON.
WriterReplies(w) ==
    LET word == IF w = 1 THEN Inn ELSE Spa
    IN  {JsonReply(AllKeys, TRUE, <<word>>, <<>>),
         JsonReply(AllKeys, TRUE, <<word>>, <<word>>),
         JsonReply(AllKeys, FALSE, <<>>, <<>>),
         NotJson}

\* What a step of a process leaves alone besides the other process.
WriterFrame ==
    /\ UNCHANGED <<sim_pc, SequenceMatcher, args, str1, str2, similarity,
                   rules, gpt_result, returned, learn_calls, n_calls, dumps,
                   repeated, prev>>
    /\ UNCHANGED <<mainvars, runvars, poolvars>>

\* Lines 253-264 and 285: the reply is parsed; with a false is_same the
\* function returns it at once.
WriterAsk(w) ==
    /\ writer_pc[w] = "start"
    /\ \E reply \in WriterReplies(w) :
          /\ writer_reply' = [writer_reply EXCEPT ![w] = reply]
          /\ writer_pc' = [writer_pc EXCEPT
                              ![w] = IF JudgedSame(reply) THEN "judged"
                                     ELSE "returned"]
    /\ UNCHANGED <<rules_file, writer_rules, writer_returned>>
    /\ WriterFrame

\* Lines 265-281: the rules are loaded from the file as it is now, and the
\* proposals are appended to the loaded copy.  A file that another process
\* has opened for writing and not yet written is no JSON document:
\* json.load raises and the except clause returns False.
WriterLoad(w) ==
    /\ writer_pc[w] = "judged"
    /\ LET loaded == load_similarity_rules(rules_file)
           u == update_similarity_rules_with_gpt(loaded.rules, writer_reply[w], FALSE)
       IN  /\ rules_file' = loaded.file
           /\ IF loaded.raised \/ ~u.write
              THEN /\ writer_pc' = [writer_pc EXCEPT ![w] = "returned"]
                   /\ UNCHANGED writer_rules
              ELSE /\ writer_pc' = [writer_pc EXCEPT ![w] = "loaded"]
                   /\ writer_rules' = [writer_rules EXCEPT ![w] = u.rules]
    /\ UNCHANGED <<writer_reply, writer_returned>>
    /\ WriterFrame

\* Line 282: open(json_file, 'w') empties the file.
WriterOpen(w) ==
    /\ writer_pc[w] = "loaded"
    /\ rules_file' = TruncatedFile
    /\ writer_pc' = [writer_pc EXCEPT ![w] = "opened"]
    /\ UNCHANGED <<writer_rules, writer_reply, writer_returned>>
    /\ WriterFrame

\* Lines 283-285: json.dump writes the copy of this process and the
\* function returns is_same.
WriterDump(w) ==
    /\ writer_pc[w] = "opened"
    /\ rules_file' = WholeFile(writer_rules[w])
    /\ writer_pc' = [writer_pc EXCEPT ![w] = "returned"]
    /\ writer_returned' = [writer_returned EXCEPT ![w] = writer_reply[w].is_same]
    /\ UNCHANGED <<writer_rules, writer_reply>>
    /\ WriterFrame

TwoNext ==
    \E w \in Writers :
        \/ WriterAsk(w)
        \/ WriterLoad(w)
        \/ WriterOpen(w)
        \/ WriterDump(w)

TwoInit ==
    /\ MainAtRest
    /\ processed_codes = {}
    /\ SimAtRest
    /\ rules_file \in {NoFile, WholeFile(default_rules)}
    /\ SequenceMatcher = "difflib"
    /\ RunAtRest
    /\ writer_pc = [w \in Writers |-> "start"]
    /\ writer_rules = [w \in Writers |-> default_rules]
    /\ writer_reply = [w \in Writers |-> NotJson]
    /\ writer_returned = [w \in Writers |-> FALSE]
    /\ PoolAtRest

SpecTwo == TwoInit /\ [][TwoNext]_vars

\* ------------------------------------------------------ the proxy pool

INITIAL_PROXY_SCORE == 5
MIN_PROXY_SCORE == -3
MaxAttempts == 3

\* The highest score a proxy is followed to.
MaxScore == 7

\* redis_client.hset(PROXY_SCORE_KEY, field, score)
hset(scores, field, value) ==
    [scores EXCEPT ![field] = [stored |-> TRUE, score |-> value]]

\* redis_client.hdel(PROXY_SCORE_KEY, field)
hdel(scores, field) == [scores EXCEPT ![field] = NoField]

\* The field redis-py sends for a proxy argument: the str itself, and
\* str(None) for None where the client encodes whatever it is given.
FieldOf(p) == Str(p)

\* load_proxies_from_file (lines 88-102) for the proxies of the file.
RECURSIVE load_proxies_from_file(_, _)
load_proxies_from_file(scores, proxies) ==
    IF proxies = {} THEN scores
    ELSE LET p == CHOOSE x \in proxies : TRUE
         IN  load_proxies_from_file(
                 IF scores[p].stored THEN scores
                 ELSE hset(scores, p, INITIAL_PROXY_SCORE),
                 proxies \ {p})

\* Line 196 with the limit one lower.
DisabledBelowLimit(value) == value < MIN_PROXY_SCORE - 1

\* Line 196: if score < MIN_PROXY_SCORE.
Disabled(value) == value < MIN_PROXY_SCORE

\* update_proxy_score(proxy, success) (lines 190-201) with the redis-py of
\* `release`: the hash afterwards, whether the proxy was removed, and
\* whether the call raised.  redis-py from 3.0 on refuses None as a field
\* (DataError); before, it sends str(None).
update_proxy_score(scores, p, success, release) ==
    IF p.tag = "none" /\ release >= 3
    THEN [raised |-> TRUE, removed |-> FALSE, scores |-> scores]
    ELSE LET field == FieldOf(p)
             \* line 191: int(hget(...) or INITIAL_PROXY_SCORE)
             old == IF scores[field].stored THEN scores[field].score
                    ELSE INITIAL_PROXY_SCORE
         IN  IF success
             THEN [raised |-> FALSE, removed |-> FALSE,
                   scores |-> hset(scores, field, old + 1)]
             ELSE IF Disabled(old - 2)
             THEN [raised |-> FALSE, removed |-> TRUE,
                   scores |-> hdel(scores, field)]
             ELSE [raised |-> FALSE, removed |-> FALSE,
                   scores |-> hset(scores, field, old - 2)]

\* sub in s
Contains(s, sub) ==
    \E i \in 1..(Len(s) - Len(sub) + 1) : SubSeq(s, i, i + Len(sub) - 1) = sub

\* Line 499: "timeout" in str(e).lower() or "connection" in str(e).lower()
SwitchProxy(message) ==
    \/ Contains(Lower(message), <<"t", "i", "m", "e", "o", "u", "t">>)
    \/ Contains(Lower(message),
                <<"c", "o", "n", "n", "e", "c", "t", "i", "o", "n">>)

\* Exceptions an attempt may end with, by what failed and with the start
\* of str(e): pyppeteer's navigation timeout, Chrome's net::ERR_TIMED_OUT
\* and net::ERR_PROXY_CONNECTION_FAILED, and an IndexError of the parsing.
Raised(class, message) == [kind |-> "raised", class |-> class, message |-> message]

Exceptions ==
    {Raised("timeout",
            <<"N", "a", "v", "i", "g", "a", "t", "i", "o", "n", " ", "T",
              "i", "m", "e", "o", "u", "t", " ", "E", "x", "c", "e", "e",
              "d", "e", "d">>),
     Raised("timeout",
            <<"n", "e", "t", ":", ":", "E", "R", "R", "_", "T", "I", "M",
              "E", "D", "_", "O", "U", "T">>),
     Raised("connection",
            <<"n", "e", "t", ":", ":", "E", "R", "R", "_", "P", "R", "O",
              "X", "Y", "_", "C", "O", "N", "N", "E", "C", "T", "I", "O",
              "N", "_", "F", "A", "I", "L", "E", "D">>),
     Raised("other",
            <<"l", "i", "s", "t", " ", "i", "n", "d", "e", "x", " ", "o",
              "u", "t", " ", "o", "f", " ", "r", "a", "n", "g", "e">>)}

\* DataError of redis-py, raised by update_proxy_score(None, True).
DataError ==
    Raised("other",
            <<"I", "n", "v", "a", "l", "i", "d", " ", "i", "n", "p", "u",
              "t", " ", "o", "f", " ", "t", "y", "p", "e", ":", " ", "'",
              "N", "o", "n", "e", "T", "y", "p", "e", "'">>)

\* The page was read and parsed (lines 431-481): line 483 is reached.
Scraped == [kind |-> "scraped", class |-> "none", message |-> <<>>]

\* Lines 405-408: newPage gave no open page.
PageClosed == [kind |-> "page_closed", class |-> "none", message |-> <<>>]

\* What an attempt with this proxy argument may do.
AttemptOutcomes(p, scores) ==
    Exceptions
    \cup (IF Truthy(p) THEN {PageClosed} ELSE {})
    \cup (IF scores[FieldOf(p)].stored /\ scores[FieldOf(p)].score >= MaxScore
          THEN {} ELSE {Scraped})

\* What a step of this specification leaves alone.
PoolFrame == UNCHANGED <<mainvars, simvars, runvars, writervars>>

\* Lines 88-102, as main() calls it at line 600.
LoadProxiesFromFile ==
    /\ scrape_pc # "trying"
    /\ \E proxies \in SUBSET Proxies :
          /\ proxy_scores' = load_proxies_from_file(proxy_scores, proxies)
          /\ disabled' = disabled \ proxies
    /\ UNCHANGED <<redis_py, scrape_pc, proxy, attempt, outcome, scrape_result>>
    /\ PoolFrame

\* get_best_proxy (lines 171-187) on a hash that holds a proxy: a proxy
\* passes check_proxy and is returned, or none does and the hash is deleted.
GetBestProxy ==
    /\ scrape_pc # "trying"
    /\ \E f \in Fields : proxy_scores[f].stored
    /\ \/ UNCHANGED proxy_scores
       \/ proxy_scores' = NoHash
    /\ UNCHANGED <<redis_py, scrape_pc, proxy, attempt, outcome, scrape_result,
                   disabled>>
    /\ PoolFrame

\* scrape_agoda_page_pyppeteer(url, proxy) is called (line 382).
ScrapeStart ==
    /\ scrape_pc # "trying"
    /\ \E p \in {None} \cup {StrV(x) : x \in Proxies} : proxy' = p
    /\ attempt' = 0
    /\ outcome' = NoAttempt
    /\ scrape_result' = "pending"
    /\ scrape_pc' = "trying"
    /\ UNCHANGED <<proxy_scores, redis_py, disabled>>
    /\ PoolFrame

\* The except clause of lines 494-505 for exception e in the attempt
\* numbered n (from 0).
Failed(e, n) ==
    LET u == update_proxy_score(proxy_scores, proxy, FALSE, redis_py)
    IN  /\ IF Truthy(proxy)
           THEN /\ proxy_scores' = u.scores
                /\ disabled' = IF u.removed THEN disabled \cup {FieldOf(proxy)}
                               ELSE disabled
           ELSE UNCHANGED <<proxy_scores, disabled>>
        /\ IF (Truthy(proxy) /\ SwitchProxy(e.message)) \/ n >= MaxAttempts - 1
           THEN scrape_result' = "absent" /\ scrape_pc' = "returned"
           ELSE UNCHANGED <<scrape_result, scrape_pc>>

\* One pass of the loop of line 385: lines 386-519.
ScrapeAttempt ==
    /\ scrape_pc = "trying"
    /\ attempt < MaxAttempts
    /\ attempt' = attempt + 1
    /\ \E o \in AttemptOutcomes(proxy, proxy_scores) :
          /\ outcome' = o
          /\ IF o.kind = "page_closed"
             THEN /\ scrape_result' = "absent"
                  /\ scrape_pc' = "returned"
                  /\ UNCHANGED <<proxy_scores, disabled>>
             ELSE IF o.kind = "raised"
             THEN Failed(o, attempt)
             ELSE LET u == update_proxy_score(proxy_scores, proxy, TRUE, redis_py)
                  IN  IF u.raised
                      THEN Failed(DataError, attempt)
                      ELSE /\ proxy_scores' = u.scores
                           /\ scrape_result' = "record"
                           /\ scrape_pc' = "returned"
                           /\ UNCHANGED disabled
    /\ UNCHANGED <<redis_py, proxy>>
    /\ PoolFrame

PoolNext ==
    \/ LoadProxiesFromFile
    \/ GetBestProxy
    \/ ScrapeStart
    \/ ScrapeAttempt

PoolInit ==
    /\ MainAtRest
    /\ processed_codes = {}
    /\ SimAtRest
    /\ rules_file = NoFile
    /\ SequenceMatcher = "difflib"
    /\ RunAtRest
    /\ WritersAtRest
    /\ proxy_scores = NoHash
    /\ redis_py \in {2, 3}
    /\ scrape_pc = "idle"
    /\ proxy = None
    /\ attempt = 0
    /\ outcome = NoAttempt
    /\ scrape_result = "pending"
    /\ disabled = {}

SpecPool == PoolInit /\ [][PoolNext]_vars

\* ------------------------------------------------------------ properties

Count(seq, x) == Cardinality({i \in 1..Len(seq) : seq[i] = x})

Clamp(x) == IF x < 0 THEN 0 ELSE IF x > 100 * Units THEN 100 * Units ELSE x

\* The row of this iteration exists and comes from a compared pair.
ComparedRow == result.code # 0 /\ ~agoda_data.is_none

\* (0.3*n + 0.2*a + (0.3 if postal_match else 0)) / 0.8 of this iteration.
BaseNow ==
    (Units * (3 * name_similarity + 2 * address_similarity
              + (IF postal_match THEN 3 ELSE 0))) \div 8

\* C1: the composite score stored in a result row lies in [0,100].
C1_ScoreClamped ==
    result.code # 0 => (0 <= result.score /\ result.score <= 100 * Units)

\* C2: gpt_fuzzy_match is called only from a score strictly between 40 and
\* 80, and at most once for a pair.
C2_ArbitrationOnlyInBand ==
    [][/\ Count(calls', "gpt_fuzzy_match") <= 1
       /\ Count(calls', "gpt_fuzzy_match") > Count(calls, "gpt_fuzzy_match")
            => (40 * Units < score /\ score < 80 * Units)]_vars

C2_Witness ==
    pc = "blended" /\ Count(calls, "gpt_fuzzy_match") = 1 /\ gpt_calls = 1

\* C3: with arbitration the final score is 0.4*b + 0.6*g clamped to
\* [0,100] (b = 60, g = 90 give 78); without it the final score is the
\* base score unchanged.
C3_BlendThenClamp ==
    [][/\ (pc = "scored" /\ pc' = "blended")
            => /\ score' = Clamp((4 * score + 6 * Units * gpt_score') \div 10)
               /\ (score = 60 * Units /\ gpt_score' = 90) => score' = 78 * Units
       /\ (pc = "scored" /\ pc' = "loop") => result'.score = score]_vars

\* The reply is a failure of the adjudicator: the call raised, no line
\* starts with "Similarity:", or what follows it on the first such line is
\* no integer.
C4_Fails(reply) ==
    \/ reply.raised
    \/ LET lines == Split(Strip(reply.text), "\n")
           sims == {i \in 1..Len(lines) : StartsWith(lines[i], <<"Similarity", ":">>)}
       IN  \/ sims = {}
           \/ ~PyInt(Split(lines[Min(sims)], ":")[2]).ok

\* C4: on any failure of the adjudicator the score it hands over is 80 and
\* nothing is raised: base score 55 then ends as 70, and main() only ever
\* crashes out of the comparison, never out of the arbitration.
C4_FailureGives80 ==
    [][/\ (pc = "scored" /\ pc' = "blended" /\ C4_Fails(gpt_reply'))
            => /\ gpt_score' = 80
               /\ score = 55 * Units => score' = 70 * Units
       /\ pc = "scored" => pc' # "crashed"]_vars

C4_Witness ==
    /\ pc = "blended"
    /\ gpt_reply.raised
    /\ gpt_score = 80
    /\ name_similarity = 100 /\ address_similarity = 70 /\ ~postal_match
    /\ distance_m = Float(1000)
    /\ score = 70 * Units

\* C5: the score the adjudicator hands to the scorer is an integer in
\* [0,100], whatever the service replied.
C5_AdjudicatorScoreInRange ==
    pc = "blended" => (0 <= gpt_score /\ gpt_score <= 100)

\* C6: a candidate without postal code gives postal_match = true and
\* postal_needs_review = true; with one, postal_match says whether the two
\* codes are equal after trimming.
C6_PostalBenefitOfDoubt ==
    ComparedRow =>
        IF ~Truthy(agoda_data.postal_code)
        THEN result.postal_match /\ result.postal_needs_review
        ELSE result.postal_match
                 <=> (Strip(Str(hotel.postal_code)) = Strip(Str(agoda_data.postal_code)))

\* C7: a hotel without candidate record gets the no-match row (score 0,
\* similarities 0, infinite distance, postal_match false, needs review),
\* url_found telling whether a link was found, and no similarity, rule
\* learning or arbitration call is made for it.
C7_NoCandidateRow ==
    (pc \in {"loop", "done"} /\ calls # <<>> /\ agoda_data.is_none)
        => /\ result = [code |-> hotel.code, name_similarity |-> 0,
                        address_similarity |-> 0, distance_m |-> Inf,
                        postal_match |-> FALSE, postal_needs_review |-> TRUE,
                        score |-> 0, url_found |-> (hotel_links # <<>>)]
           /\ \A i \in 1..Len(calls) :
                 calls[i] \in {"search_agoda_hotel", "scrape_agoda_page_pyppeteer"}

C7_Witness ==
    /\ pc = "loop"
    /\ agoda_data.is_none
    /\ hotel_links # <<>>
    /\ result.code = hotel.code
    /\ result.url_found
    /\ calls = <<"search_agoda_hotel", "scrape_agoda_page_pyppeteer">>

\* C8: whatever fields are missing on either record, the comparison raises
\* nothing and the iteration ends with a row for the hotel.
C8_NeverRaises ==
    /\ pc # "crashed"
    /\ (pc = "loop" /\ calls # <<>>) => result.code = hotel.code

Missing(c) == c.tag \in {"none", "nan"} \/ (c.tag = "float" /\ c.val = 0)

\* C9: with a coordinate missing, null or zero calculate_distance returns
\* +infinity and the scorer applies the far penalty, never the near bonus.
C9_MissingCoordinateIsFar ==
    (/\ Count(calls, "calculate_distance") = 1
     /\ \E c \in {hotel.latitude, hotel.longitude,
                  agoda_data.latitude, agoda_data.longitude} : Missing(c))
        => /\ pc # "crashed"
           /\ distance_m = Inf
           /\ pc = "scored" => score = BaseNow - 20 * Units

\* C10: the distance adjustment is +30 below 1000 m, -20 above 5000 m and
\* nothing from 1000 m to 5000 m, both ends included.
C10_ThreeBands ==
    pc = "scored" =>
        /\ (distance_m.tag = "float" /\ distance_m.val < 1000)
              => score = BaseNow + 30 * Units
        /\ (distance_m.tag = "inf" \/ (distance_m.tag = "float" /\ distance_m.val > 5000))
              => score = BaseNow - 20 * Units
        /\ (distance_m.tag = "float" /\ 1000 <= distance_m.val /\ distance_m.val <= 5000)
              => score = BaseNow
        /\ score - BaseNow \in {30 * Units, 0, 0 - 20 * Units}

C10_Witness ==
    /\ pc = "scored"
    /\ distance_m = Float(1000)
    /\ hotel.latitude = Float(7000) /\ agoda_data.latitude = Float(6000)
    /\ score = BaseNow

\* The two records carry the same (lat, lon) pair.
SamePair ==
    /\ hotel.latitude = agoda_data.latitude
    /\ hotel.longitude = agoda_data.longitude

\* C11 as the claim states it: the same (lat, lon) pair on both records
\* gives distance 0 and the near bonus of +30, whatever the pair is.
C11_SamePairIsNear ==
    (pc = "scored" /\ SamePair)
        => /\ distance_m = Float(0)
           /\ score = BaseNow + 30 * Units

\* C11: the same (lat, lon) pair on both records, neither coordinate of it
\* being zero, gives distance 0 and the near bonus of +30; a pair holding a
\* zero is taken for missing and gets +infinity.
C11_SameNonZeroPairIsNear ==
    (pc = "scored" /\ SamePair)
        => IF hotel.latitude.val # 0 /\ hotel.longitude.val # 0
           THEN distance_m = Float(0) /\ score = BaseNow + 30 * Units
           ELSE distance_m = Inf /\ score = BaseNow - 20 * Units

C11_Witness ==
    /\ pc = "scored"
    /\ hotel.latitude = Float(7000) /\ agoda_data.latitude = Float(7000)
    /\ hotel.longitude = Float(127) /\ agoda_data.longitude = Float(127)
    /\ distance_m = Float(0)
    /\ score = BaseNow + 30 * Units

\* C12: the base score is on a 0-100 basis: 0 when both similarities are 0
\* and the postal codes differ, never above 100, and 100 when both
\* similarities are 100 and the postal codes match.  Read where the
\* distance adds nothing (1000 m to 5000 m), so that score is the base.
C12_BaseOnHundredBasis ==
    (pc = "scored" /\ distance_m.tag = "float"
     /\ 1000 <= distance_m.val /\ distance_m.val <= 5000)
        => /\ (name_similarity = 0 /\ address_similarity = 0 /\ ~postal_match)
                 => score = 0
           /\ score <= 100 * Units
           /\ (name_similarity = 100 /\ address_similarity = 100 /\ postal_match)
                 => score = 100 * Units

\* A call of calculate_similarity starts with this step.
CallStarts == sim_pc = "idle" /\ n_calls' = n_calls + 1

\* The value is an empty str, None, or the NaN of an empty cell.
Absent(v) == v.tag \in {"none", "nan"} \/ (v.tag = "str" /\ v.val = <<>>)

\* C13: calculate_similarity returns 0 when one of its two arguments is
\* empty or absent, for names and for addresses, and then it neither calls
\* update_similarity_rules_with_gpt nor touches the rules file.
C13_EmptyOrAbsentGivesZero ==
    [][(CallStarts /\ (Absent(args'.str1) \/ Absent(args'.str2)))
          => /\ sim_pc' = "idle"
             /\ returned' = Returned(0)
             /\ learn_calls' = 0
             /\ rules_file' = rules_file]_vars

\* The second of the two calls has returned.
SwappedCalls ==
    /\ n_calls = 2
    /\ sim_pc = "idle"
    /\ returned.done
    /\ args = Swapped(prev.args)

\* C14: calculate_similarity(a, b) and calculate_similarity(b, a), called
\* one after the other on the same rules file, return the same value.
C14_Symmetric ==
    SwappedCalls => returned = prev.returned

\* The two strings are as lines 300-346 left them and the rules file is
\* still the one those lines read.
JustNormalized ==
    \/ sim_pc = "asked"
    \/ sim_pc = "idle" /\ returned.done /\ learn_calls = 0
        /\ Truthy(args.str1) /\ Truthy(args.str2)

\* C15: normalising a normalised string again, with the same rules, gives
\* the same string.
C15_NormalizeIdempotent ==
    JustNormalized =>
        /\ Normalize(str1, rules_file.doc, args.is_address) = str1
        /\ Normalize(str2, rules_file.doc, args.is_address) = str2

\* The rules file holds a whole document.
Whole == rules_file.exists /\ rules_file.json

\* The lists update_similarity_rules_with_gpt appends to.
LearnedLists(doc) ==
    {doc.name.remove_words, doc.name.remove_patterns,
     doc.address.remove_words, doc.address.remove_patterns}

\* The call asked the service, the rules were dumped and the call returned.
LearnedNow ==
    sim_pc = "idle" /\ learn_calls = 1 /\ gpt_result.is_same /\ Whole
    /\ gpt_result.keys = AllKeys

\* C16: no list of the rules file that the learning appends to holds a
\* value twice, and a word the service proposed and the code accepted is in
\* its list exactly once after the call, however often it was proposed.
C16_NoDuplicateRules ==
    /\ Whole => \A list \in LearnedLists(rules_file.doc) :
                    \A i, j \in 1..Len(list) : list[i] = list[j] => i = j
    /\ LearnedNow =>
          \A k \in 1..Len(gpt_result.redundant_words) :
              ValidWord(gpt_result.redundant_words[k]) =>
                  Count(RulesOf(rules_file.doc, args.is_address).remove_words,
                        gpt_result.redundant_words[k]) = 1

\* The same pair was compared twice, the service proposed Inn twice both
\* times, and Inn is in the list once.
C16_Witness ==
    /\ LearnedNow
    /\ repeated
    /\ dumps = 2
    /\ ~args.is_address
    /\ rules_file.doc.address = default_rules.address
    /\ Count(gpt_result.redundant_words, Inn) = 2
    /\ Count(rules_file.doc.name.remove_words, Inn) = 1

\* Letters, digits, spaces, hyphens and apostrophes only, and not empty.
PlainValue(v) ==
    /\ v # <<>>
    /\ \A i \in 1..Len(v) : IsAlnum(v[i]) \/ v[i] \in {" ", "-", "'"}

\* C17: every word and every pattern in the lists the learning appends to
\* is non-empty and made of letters, digits, spaces, hyphens and
\* apostrophes only.
C17_PersistedValuesPlain ==
    Whole => \A list \in LearnedLists(rules_file.doc) :
                 \A i \in 1..Len(list) : PlainValue(list[i])

\* The service raised, or its reply is no JSON, or misses one of the three
\* keys, or says the two strings differ.
LearnFails(reply) ==
    reply.raised \/ ~reply.json \/ reply.keys # AllKeys \/ ~reply.is_same

\* C18: when the service raises, judges the pair different or replies
\* with something malformed, the rules file stays as it is and
\* calculate_similarity returns the ratio it computed, which is below 50;
\* an existing rules file changes only after a reply that judged the pair
\* the same and had all three keys.
C18_FailureLeavesStore ==
    [][/\ (sim_pc = "asked" /\ LearnFails(gpt_result'))
            => /\ rules_file' = rules_file
               /\ sim_pc' = "idle"
               /\ returned' = Returned(similarity)
               /\ similarity < 50
       /\ (rules_file.exists /\ rules_file' # rules_file)
            => /\ sim_pc \in {"asked", "dumping"}
               /\ ~LearnFails(gpt_result')]_vars

\* is_same came back true without the redundant_patterns key: the word
\* proposed with it is not stored and the ratio is returned.
C18_Witness ==
    /\ sim_pc = "idle"
    /\ learn_calls = 1
    /\ gpt_result.json /\ gpt_result.is_same
    /\ gpt_result.keys = {"is_same", "redundant_words"}
    /\ gpt_result.redundant_words = <<Inn>>
    /\ returned = Returned(similarity)
    /\ rules_file = WholeFile(default_rules)

\* C19: one call of calculate_similarity asks the service at most once and
\* only for a ratio below 50; the ratio is not computed again after that;
\* the call returns 100 when it asked and the pair was judged the same,
\* and the ratio it computed otherwise.
C19_AskedOnceBelowFifty ==
    [][/\ learn_calls' <= 1
       /\ learn_calls' = 1 => similarity' < 50
       /\ ~CallStarts => (similarity' = similarity /\ learn_calls' = learn_calls)
       /\ (sim_pc' = "idle" /\ returned'.done
            /\ Truthy(args'.str1) /\ Truthy(args'.str2))
            => returned'.value
                 = IF learn_calls' = 1 /\ ~LearnFails(gpt_result')
                   THEN 100 ELSE similarity']_vars

\* Ratio 40: asked once, judged the same, 100 returned and the word stored,
\* the ratio left as computed.
C19_Witness ==
    /\ sim_pc = "idle"
    /\ learn_calls = 1
    /\ similarity = 40
    /\ returned = Returned(100)
    /\ Count(rules_file.doc.name.remove_words, Inn) = 1

\* C20: after a crash while the rules are written the file holds a whole
\* rule set, the old one or the new one.
C20_CrashKeepsRules ==
    sim_pc = "dead" => Whole

\* C22: a hotel whose code is not in the processed set and that the loop
\* has gone through has exactly one result row and exactly one line in the
\* processed log, whichever path it took; a skipped hotel has no row, no
\* line and no call; the hotel at which the run stopped for lack of a proxy
\* has no row and no line.
C22_OneRowOneLogLine ==
    pc \in {"loop", "done", "crashed"} =>
        IF hotel = NoHotel
        THEN result = NoRow /\ processed_log = <<>> /\ calls = <<>>
        ELSE IF calls = <<>>
        THEN result = NoRow /\ Count(processed_log, hotel.code) = 0
        ELSE /\ result # NoRow
             /\ result.code = hotel.code
             /\ Count(processed_log, hotel.code) = 1

\* C23: when main() has returned, the list it returns holds every row the
\* run produced, and every produced row with a score below 80 is in the
\* unmatched-hotels log.
C23_ResultsReturned ==
    (pc = "done" /\ result # NoRow) =>
        /\ \E i \in 1..Len(results) : results[i] = result
        /\ result.score < UnmatchedBelow * Units =>
               \E i \in 1..Len(unmatched_hotels) : unmatched_hotels[i] = result

\* C24: the batch buffer never holds more than batch_size rows and is
\* empty again as soon as it has reached batch_size, so that of the batch
\* files of a run only the last may hold another number of rows than
\* batch_size.
C24_BatchNeverOverfull ==
    /\ Len(batch_results) <= batch_size
    /\ run_pc = "loop" => Len(batch_results) < batch_size
    /\ \A i, j \in 1..Len(exported) :
           (exported[i].run = exported[j].run
              /\ exported[i].batch_num < exported[j].batch_num)
           => Len(exported[i].rows) = batch_size

\* The codes whose rows are in some exported batch file.
ExportedCodes ==
    UNION {{exported[i].rows[j] : j \in 1..Len(exported[i].rows)} :
             i \in 1..Len(exported)}

\* C25: wherever a run is interrupted, every code in the processed log has
\* its row in an exported batch file, so that the next run skips no hotel
\* whose row was not exported.
C25_LoggedIsExported ==
    /\ run_pc = "interrupted" => load_processed_codes(log_file) \subseteq ExportedCodes
    /\ n_runs > 1 => loaded_codes \subseteq ExportedCodes

\* C21: when two comparisons have learned at the same time, each with a
\* word that was accepted and written, the rule store holds both words.
C21_BothRulesKept ==
    (\A w \in Writers : writer_pc[w] = "returned" /\ writer_returned[w]) =>
        /\ rules_file.exists /\ rules_file.json
        /\ IsIn(Inn, rules_file.doc.name.remove_words)
        /\ IsIn(Spa, rules_file.doc.name.remove_words)


\* A step that is one pass of the retry loop.
IsAttempt == scrape_pc = "trying" /\ attempt' = attempt + 1

\* A step of loading or of choosing a proxy.
IsPoolCall == scrape_pc' = scrape_pc /\ attempt' = attempt

\* The pass scraped the page and the score update went through.
AttemptSucceeded == outcome'.kind = "scraped" /\ scrape_result' = "record"

\* C26: every stored proxy has a score of at least MIN_PROXY_SCORE; on a
\* stored proxy a success adds 1 and a failure subtracts 2, and a score that
\* would fall below MIN_PROXY_SCORE is removed instead of stored; loading
\* never changes the score of a proxy that is already stored.
C26_ScoresKeptAboveMin ==
    [][/\ \A f \in Fields :
             proxy_scores'[f].stored => proxy_scores'[f].score >= MIN_PROXY_SCORE
       /\ IsPoolCall =>
             \A f \in Fields :
                 /\ (proxy_scores[f].stored /\ proxy_scores'[f].stored)
                        => proxy_scores'[f].score = proxy_scores[f].score
                 /\ (~proxy_scores[f].stored /\ proxy_scores'[f].stored)
                        => proxy_scores'[f].score = INITIAL_PROXY_SCORE
       /\ (IsAttempt /\ Truthy(proxy) /\ proxy_scores[FieldOf(proxy)].stored) =>
             LET f == FieldOf(proxy)
                 old == proxy_scores[f].score
             IN  /\ AttemptSucceeded =>
                       /\ proxy_scores'[f].stored
                       /\ proxy_scores'[f].score = old + 1
                 /\ outcome'.kind = "raised" =>
                       IF old - 2 < MIN_PROXY_SCORE
                       THEN ~proxy_scores'[f].stored
                       ELSE /\ proxy_scores'[f].stored
                            /\ proxy_scores'[f].score = old - 2
      ]_vars

\* A proxy stands one above MIN_PROXY_SCORE, which takes a success among
\* its failures, while another one was removed for its score and is out.
C26_Witness ==
    /\ \E f \in Proxies :
          proxy_scores[f].stored /\ proxy_scores[f].score = MIN_PROXY_SCORE + 1
    /\ \E g \in disabled : ~proxy_scores[g].stored

\* C27: a proxy removed for its low score is not in the pool again until
\* load_proxies_from_file puts it back.
C27_DisabledStaysOut == \A f \in disabled : ~proxy_scores[f].stored

\* C28: the call makes at most MaxAttempts passes; a pass that scrapes the
\* page returns the record, and with a proxy raises its score once by 1; a
\* failed pass with a proxy lowers its score once by 2 (or removes it),
\* returns absent at once after a timeout or connection failure, and the
\* third failed pass returns absent.
C28_ScrapeRetries ==
    [][IsAttempt =>
          LET f == FieldOf(proxy)
              known == Truthy(proxy) /\ proxy_scores[f].stored
              old == proxy_scores[f].score
          IN  /\ attempt' <= MaxAttempts
              /\ outcome'.kind = "scraped" =>
                    /\ scrape_result' = "record"
                    /\ scrape_pc' = "returned"
                    /\ known => /\ proxy_scores'[f].stored
                                /\ proxy_scores'[f].score = old + 1
              /\ outcome'.kind # "scraped" =>
                    /\ known =>
                          IF old - 2 < MIN_PROXY_SCORE
                          THEN ~proxy_scores'[f].stored
                          ELSE /\ proxy_scores'[f].stored
                               /\ proxy_scores'[f].score = old - 2
                    /\ (Truthy(proxy) /\ outcome'.class \in {"timeout", "connection"})
                          => scrape_result' = "absent"
                    /\ attempt' = MaxAttempts => scrape_result' = "absent"
                    /\ scrape_result' \in {"pending", "absent"}
      ]_vars

====
